---- MODULE Spec2Model ----
(***************************************************************************)
(* Hangout-overlap matching engine of the calendar store                   *)
(* (src/src/store/calendarStore.ts) over the Firestore-backed services     *)
(* (src/src/services/firebase.ts).                                         *)
(*                                                                         *)
(* The document store holds users (friends, friend requests), events and   *)
(* notifications.  Every user runs one calendar-store session; every await *)
(* of a store call is a step of its own, so that the sessions interleave   *)
(* at the suspension points of the code.                                   *)
(***************************************************************************)
EXTENDS Integers, Sequences, FiniteSets, TLC

\* ---------------------------------------------------------------- bounds
NumUsers == 3
MaxEvents == 3
MaxFailures == 1
MaxTime == 3
MaxActors == 1
MaxRequests == 3
InstantsPerDay == 2
MaxNotifications == 3
MaxSignIns == 2

\* ------------------------------------------------------- program constants
NotificationLimit == 50

Users == 1..NumUsers
EventIds == 1..MaxEvents
Undefined == 0
NaN == -1

VARIABLES
  friends,        \* users/{u}.friends, an array field
  reqSent,        \* users/{u}.friendRequests.sent
  reqReceived,    \* users/{u}.friendRequests.received
  eventDocs,      \* events collection: id -> document or NoDoc
  nextEventId,    \* next automatic document id of the events collection
  notifications,  \* notifications collection: each user's documents in creation order
  localEvents,    \* useState events of each session
  error,          \* useState error of each session
  pc,             \* position of the session's createEvent call
  cur,            \* locals and outcome of the session's createEvent call
  pendingUpdate,  \* the session's updateEvent call
  pendingDelete,  \* the session's deleteEvent call
  calls,          \* createHangoutMatch calls of the session's detector run
  deleted,        \* event ids whose deleteEvent succeeded
  failures,       \* number of store failures injected so far
  ovA, ovB, ovResult,  \* inputs and result of the overlap calculator
  notificationDocs,    \* notifications collection by document id, with the read flag
  nextNotificationId,  \* next automatic document id of the notifications collection
  localNotifications,  \* useState notifications of each session's notification store
  notificationError,   \* useState error of each session's notification store
  delivered,           \* the last snapshot the listener of each session was given
  lastCall,            \* the notification store call of each session that resolved last
  currentUser,         \* auth.currentUser of the sign-in provider
  state,               \* useState state of the auth store: user and isAuthenticated
  pendingCallbacks,    \* auth-state callbacks waiting for their user-document read
  signIns              \* number of sign-ins so far

storeVars == <<friends, reqSent, reqReceived, eventDocs, nextEventId, notifications>>
sessionVars == <<localEvents, error, pc, cur, pendingUpdate, pendingDelete, calls>>
overlapVars == <<ovA, ovB, ovResult>>
notificationVars == <<notificationDocs, nextNotificationId, localNotifications,
                      notificationError, delivered, lastCall>>
authVars == <<currentUser, state, pendingCallbacks, signIns>>
viewVars == <<notificationVars, authVars>>
vars == <<storeVars, sessionVars, deleted, failures, overlapVars, viewVars>>

\* ------------------------------------------------------------- timestamps
\* A timestamp string is <<format, instant>>: "iso" is the output format of
\* Date.toISOString, "local" is the datetime-local format of the form
\* field, "bad" does not parse.
ISO(n) == <<"iso", n>>
Local(n) == <<"local", n>>
Malformed == <<"bad", 0>>

\* new Date(s).getTime()
GetTime(s) == IF s[1] = "bad" THEN NaN ELSE s[2]

\* new Date(ms).toISOString()
ToISOString(ms) == ISO(ms)

\* the first argument in the place of the maximum
FirstArgument(x, y) == x

MathMax(x, y) == IF x = NaN \/ y = NaN THEN NaN ELSE IF x >= y THEN x ELSE y
MathMin(x, y) == IF x = NaN \/ y = NaN THEN NaN ELSE IF x <= y THEN x ELSE y

\* the comparison with < in the place of <=
DateLess(x, y) == x # NaN /\ y # NaN /\ x < y

\* the comparison of the numbers, without the rule for NaN
NumberLeq(x, y) == x <= y

\* Date <= Date compares the time values; any comparison with NaN is false
DateLeq(x, y) == x # NaN /\ y # NaN /\ x <= y

Null == [null |-> TRUE]

getTimeOverlap(event1, event2) ==
  LET start1 == GetTime(event1.startTime)
      end1 == GetTime(event1.endTime)
      start2 == GetTime(event2.startTime)
      end2 == GetTime(event2.endTime)
      overlapStart == MathMax(start1, start2)
      overlapEnd == MathMin(end1, end2)
  IN IF DateLeq(overlapStart, overlapEnd)
       THEN [start |-> ToISOString(overlapStart), end |-> ToISOString(overlapEnd)]
       ELSE Null

\* ------------------------------------------------------------ store model
NoDoc == [exists |-> FALSE]

\* events/{id} as written by createEvent of the service: {...event, id}
EventDoc(id, userId, startTime, endTime, type) ==
  [exists |-> TRUE, id |-> id, userId |-> userId, startTime |-> startTime,
   endTime |-> endTime, type |-> type]

\* arrayUnion: appends the element unless the array already holds it
arrayUnion(arr, x) ==
  IF \E i \in 1..Len(arr) : arr[i] = x THEN arr ELSE Append(arr, x)

\* arrayRemove: removes every occurrence of the element
arrayRemove(arr, x) == SelectSeq(arr, LAMBDA y : y # x)

Includes(arr, x) == \E i \in 1..Len(arr) : arr[i] = x

RECURSIVE SeqOfSet(_)
SeqOfSet(S) ==
  IF S = {} THEN <<>>
  ELSE LET m == CHOOSE x \in S : \A y \in S : x <= y
       IN <<m>> \o SeqOfSet(S \ {m})

Reverse(s) == [i \in 1..Len(s) |-> s[Len(s) + 1 - i]]

Take(s, n) == SubSeq(s, 1, IF Len(s) < n THEN Len(s) ELSE n)

NoData == [matchedUserId |-> Undefined, overlappingTime |-> Null,
           hangoutEvents |-> <<>>, fromUserId |-> Undefined]

\* notifications/{id}. Every query of the collection is by userId, so the
\* collection is kept as one sequence per userId, in createdAt order; the
\* index stands for the document id
Notification(userId, type, data) == [userId |-> userId, type |-> type, data |-> data]

\* setDoc of a new notification document
addNotification(all, n) == [all EXCEPT ![n.userId] = Append(@, n)]

\* getUserNotifications: where userId == u, orderBy createdAt desc, limit 50
getUserNotifications(userId) ==
  Take(Reverse(notifications[userId]), NotificationLimit)

\* getEventsByUserIds: where userId in userIds
getEventsByUserIds(userIds) ==
  LET ids == {i \in EventIds : eventDocs[i].exists /\ Includes(userIds, eventDocs[i].userId)}
      order == SeqOfSet(ids)
  IN [k \in 1..Len(order) |-> eventDocs[order[k]]]

\* the value of a field of a document, undefined for a field the document
\* does not have
Field(document, name) == IF name \in DOMAIN document THEN document[name] ELSE Undefined

\* orderBy(name, 'desc'): the documents that have the field, by falling value
RECURSIVE orderByDesc(_, _)
orderByDesc(ids, name) ==
  LET having == {i \in ids : name \in DOMAIN eventDocs[i]}
  IN IF having = {} THEN <<>>
     ELSE LET m == CHOOSE i \in having :
                     \A j \in having :
                       \/ eventDocs[j][name] < eventDocs[i][name]
                       \/ eventDocs[j][name] = eventDocs[i][name] /\ i <= j
          IN <<eventDocs[m]>> \o orderByDesc(having \ {m}, name)

\* getUserEvents: query(events, where('createdBy', '==', userId),
\* orderBy('date', 'desc')), over documents written as EventDoc
getUserEvents(userId) ==
  orderByDesc({i \in EventIds : /\ eventDocs[i].exists
                                /\ Field(eventDocs[i], "createdBy") = userId}, "date")

\* { ...event, ...updates }
mergeUpdates(event, updates) ==
  [event EXCEPT !.startTime = updates.startTime, !.endTime = updates.endTime]

\* a write that creates the document when it is missing, as setDoc with
\* merge does
setDocMerge(docs, id, updates) ==
  [ok |-> TRUE,
   docs |-> [docs EXCEPT ![id] =
     IF @.exists THEN mergeUpdates(@, updates)
     ELSE EventDoc(id, Undefined, updates.startTime, updates.endTime, "undefined")]]

\* updateDoc of updateEvent: merges the fields into the document; throws for
\* a missing document, which the service catches and turns into false
updateDoc(docs, id, updates) ==
  IF docs[id].exists
    THEN [ok |-> TRUE, docs |-> [docs EXCEPT ![id] = mergeUpdates(@, updates)]]
    ELSE [ok |-> FALSE, docs |-> docs]

\* -------------------------------------------------------------- inputs
\* The event form hands ISO strings to createEvent (EventModal onSubmit)
Windows == {<<t, t + 1>> : t \in {x \in 0..(MaxTime - 1) : x % 2 = 0}}
EventTypes == {"personal", "hangout"}
\* the form data: datetime-local strings, start and end in any order
FormData ==
  {[startTime |-> Local(a), endTime |-> Local(b), type |-> k] :
     a \in 0..MaxTime, b \in 0..MaxTime, k \in EventTypes}

\* Date > Date compares the time values; any comparison with NaN is false
DateGreater(x, y) == x # NaN /\ y # NaN /\ x > y

\* the form schema without its refinement
NoRefinement(data) == TRUE

\* eventSchema: .refine(data => new Date(data.endTime) > new Date(data.startTime))
eventSchema(data) == DateGreater(GetTime(data.endTime), GetTime(data.startTime))

\* handleEventSubmit: the form data as createEvent gets them
handleEventSubmit(data) ==
  [startTime |-> ToISOString(GetTime(data.startTime)),
   endTime |-> ToISOString(GetTime(data.endTime)), type |-> data.type]

\* what the form submits: valid data; the events of the model lie within
\* one of the windows
WithinWindow(data) ==
  \E w \in Windows : {GetTime(data.startTime), GetTime(data.endTime)} \subseteq {w[1], w[2]}

EventInputs ==
  {handleEventSubmit(data) : data \in {d \in FormData : WithinWindow(d) /\ eventSchema(d)}}
UpdateInputs == {[startTime |-> ISO(w[1]), endTime |-> ISO(w[2])] : w \in Windows}

\* ------------------------------------------------------------- sessions
NoError == "null"

Idle == [event |-> NoDoc, friends |-> <<>>, friendHangouts |-> <<>>, todo |-> <<>>,
         step |-> 0, trace |-> <<>>, failed |-> {}, seen |-> {}, ok |-> FALSE,
         error |-> NoError, targetDate |-> 0, userHangouts |-> <<>>, since |-> 0,
         overlaps |-> <<>>]

NoPending == [id |-> 0]

\* ------------------------------------------- notification and auth stores
NotificationIds == 1..MaxNotifications
NoNotification == [exists |-> FALSE]
NoCall == [op |-> "none"]
\* state.user is the id of the user document, or null
SignedOut == [user |-> Undefined, isAuthenticated |-> FALSE]

\* the notification stores and the auth store after their first render, with
\* an empty notifications collection and nobody signed in
InitView ==
  /\ notificationDocs = [i \in NotificationIds |-> NoNotification]
  /\ nextNotificationId = 1
  /\ localNotifications = [u \in Users |-> <<>>]
  /\ notificationError = [u \in Users |-> NoError]
  /\ delivered = [u \in Users |-> <<>>]
  /\ lastCall = [u \in Users |-> NoCall]
  /\ currentUser = Undefined
  /\ state = SignedOut
  /\ pendingCallbacks = <<>>
  /\ signIns = 0

Init ==
  /\ friends = [u \in Users |-> <<>>]
  /\ reqSent = [u \in Users |-> <<>>]
  /\ reqReceived = [u \in Users |-> <<>>]
  /\ eventDocs = [i \in EventIds |-> NoDoc]
  /\ nextEventId = 1
  /\ notifications = [u \in Users |-> <<>>]
  /\ localEvents = [u \in Users |-> <<>>]
  /\ error = [u \in Users |-> NoError]
  /\ pc = [u \in Users |-> "idle"]
  /\ cur = [u \in Users |-> Idle]
  /\ pendingUpdate = [u \in Users |-> NoPending]
  /\ pendingDelete = [u \in Users |-> NoPending]
  /\ calls = [u \in Users |-> <<>>]
  /\ deleted = {}
  /\ failures = 0
  /\ ovA = [startTime |-> ISO(0), endTime |-> ISO(0)]
  /\ ovB = [startTime |-> ISO(0), endTime |-> ISO(0)]
  /\ ovResult = Null
  /\ InitView

CanFail == failures < MaxFailures
Fail == failures' = failures + 1

\* ------------------------------------------------------- friend requests
\* getFriendshipStatus of the user search
getFriendshipStatus(u, v) ==
  IF Includes(friends[u], v) THEN "friends"
  ELSE IF Includes(reqSent[u], v) THEN "pending"
  ELSE IF Includes(reqReceived[u], v) THEN "received"
  ELSE "none"

\* a sendFriendRequest that is offered for the user themselves as well
sendFriendRequestToAnyone(fromUserId, toUserId) ==
  /\ getFriendshipStatus(fromUserId, toUserId) = "none"
  /\ Len(notifications[toUserId]) < MaxRequests
  /\ LET sent == [reqSent EXCEPT ![fromUserId] = arrayUnion(@, toUserId)]
     IN /\ reqSent' = sent
        /\ reqReceived' = [reqReceived EXCEPT ![toUserId] = arrayUnion(@, fromUserId)]
  /\ notifications' = addNotification(notifications,
       Notification(toUserId, "friend_request", [NoData EXCEPT !.fromUserId = fromUserId]))
  /\ UNCHANGED <<friends, eventDocs, nextEventId, sessionVars, deleted, failures, overlapVars, viewVars>>

\* sendFriendRequest: one write batch. The caller is the user search, which
\* leaves the user out of the results and offers the request for status
\* "none"
sendFriendRequest(fromUserId, toUserId) ==
  /\ fromUserId # toUserId
  /\ getFriendshipStatus(fromUserId, toUserId) = "none"
  /\ Len(notifications[toUserId]) < MaxRequests
  /\ reqSent' = [reqSent EXCEPT ![fromUserId] = arrayUnion(@, toUserId)]
  /\ reqReceived' = [reqReceived EXCEPT ![toUserId] = arrayUnion(@, fromUserId)]
  /\ notifications' = addNotification(notifications,
       Notification(toUserId, "friend_request", [NoData EXCEPT !.fromUserId = fromUserId]))
  /\ UNCHANGED <<friends, eventDocs, nextEventId, sessionVars, deleted, failures, overlapVars, viewVars>>

\* an acceptFriendRequest that writes the document of the user only
acceptOneSided(userId, requesterId) ==
  /\ Includes(reqReceived[userId], requesterId)
  /\ friends' = [friends EXCEPT ![userId] = arrayUnion(@, requesterId)]
  /\ reqReceived' = [reqReceived EXCEPT ![userId] = arrayRemove(@, requesterId)]
  /\ UNCHANGED <<reqSent, eventDocs, nextEventId, notifications, sessionVars, deleted,
                 failures, overlapVars, viewVars>>

\* acceptFriendRequest: one write batch. The caller is the card of a
\* received request
acceptFriendRequest(userId, requesterId) ==
  /\ Includes(reqReceived[userId], requesterId)
  /\ LET f1 == [friends EXCEPT ![userId] = arrayUnion(@, requesterId)]
     IN friends' = [f1 EXCEPT ![requesterId] = arrayUnion(@, userId)]
  /\ reqReceived' = [reqReceived EXCEPT ![userId] = arrayRemove(@, requesterId)]
  /\ reqSent' = [reqSent EXCEPT ![requesterId] = arrayRemove(@, userId)]
  /\ UNCHANGED <<eventDocs, nextEventId, notifications, sessionVars, deleted, failures,
                 overlapVars, viewVars>>

\* rejectFriendRequest: one write batch. The caller is the card of a
\* received request
rejectFriendRequest(userId, requesterId) ==
  /\ Includes(reqReceived[userId], requesterId)
  /\ reqReceived' = [reqReceived EXCEPT ![userId] = arrayRemove(@, requesterId)]
  /\ reqSent' = [reqSent EXCEPT ![requesterId] = arrayRemove(@, userId)]
  /\ UNCHANGED <<friends, eventDocs, nextEventId, notifications, sessionVars, deleted,
                 failures, overlapVars, viewVars>>

\* the commit of the batch fails: nothing is written, the call returns false
batchFails ==
  /\ CanFail /\ Fail
  /\ UNCHANGED <<storeVars, sessionVars, deleted, overlapVars, viewVars>>

sendFriendRequestFails(fromUserId, toUserId) ==
  /\ fromUserId # toUserId
  /\ getFriendshipStatus(fromUserId, toUserId) = "none"
  /\ batchFails

acceptFriendRequestFails(userId, requesterId) ==
  /\ Includes(reqReceived[userId], requesterId)
  /\ batchFails

rejectFriendRequestFails(userId, requesterId) ==
  /\ Includes(reqReceived[userId], requesterId)
  /\ batchFails

\* ------------------------------------------------------------ createEvent
\* const createdEvent = { ...newEvent, id: eventId }
CreatedEvent(s, eventData, eventId) ==
  EventDoc(eventId, s, eventData.startTime, eventData.endTime, eventData.type)

\* the detector called without the test of the type
AlwaysRunsDetector(createdEvent) == TRUE

\* if (createdEvent.type === "hangout") await checkForHangoutMatches(...)
RunsDetector(createdEvent) == createdEvent.type = "hangout"

\* createEvent up to the end of its first await: the event is persisted and
\* appended to the local list; a hangout goes on to the detector, any other
\* event is returned
createEvent(s, eventData) ==
  /\ pc[s] = "idle"
  /\ nextEventId <= MaxEvents
  /\ LET createdEvent == CreatedEvent(s, eventData, nextEventId)
         started == [Idle EXCEPT !.event = createdEvent, !.trace = <<"createEvent">>]
     IN /\ eventDocs' = [eventDocs EXCEPT ![nextEventId] = createdEvent]
        /\ nextEventId' = nextEventId + 1
        /\ localEvents' = [localEvents EXCEPT ![s] = Append(@, createdEvent)]
        /\ error' = [error EXCEPT ![s] = NoError]
        /\ IF RunsDetector(createdEvent)
             THEN /\ pc' = [pc EXCEPT ![s] = "friends"]
                  /\ cur' = [cur EXCEPT ![s] = started]
             ELSE /\ pc' = [pc EXCEPT ![s] = "returned"]
                  /\ cur' = [cur EXCEPT ![s] = [started EXCEPT !.ok = TRUE]]
  /\ UNCHANGED <<friends, reqSent, reqReceived, notifications, pendingUpdate, pendingDelete,
                 calls, deleted, failures, overlapVars, viewVars>>

\* a createEvent that appends the event to the local list before the
\* service has answered
createEventFailsAppended(s, eventData) ==
  /\ pc[s] = "idle"
  /\ nextEventId <= MaxEvents
  /\ CanFail /\ Fail
  /\ error' = [error EXCEPT ![s] = "Failed to create event"]
  /\ localEvents' = [localEvents EXCEPT ![s] = Append(@, CreatedEvent(s, eventData, nextEventId))]
  /\ pc' = [pc EXCEPT ![s] = "returned"]
  /\ cur' = [cur EXCEPT ![s] = [Idle EXCEPT !.trace = <<"createEvent">>,
                                            !.failed = {"createEvent"},
                                            !.error = "Failed to create event"]]
  /\ UNCHANGED <<storeVars, pendingUpdate, pendingDelete, calls, deleted, overlapVars, viewVars>>

\* createEventService returns null: createEvent throws into its own catch,
\* sets the error state and returns null
createEventFails(s, eventData) ==
  /\ pc[s] = "idle"
  /\ nextEventId <= MaxEvents
  /\ CanFail /\ Fail
  /\ error' = [error EXCEPT ![s] = "Failed to create event"]
  /\ pc' = [pc EXCEPT ![s] = "returned"]
  /\ cur' = [cur EXCEPT ![s] = [Idle EXCEPT !.trace = <<"createEvent">>,
                                            !.failed = {"createEvent"},
                                            !.error = "Failed to create event"]]
  /\ UNCHANGED <<storeVars, localEvents, pendingUpdate, pendingDelete, calls, deleted,
                 overlapVars, viewVars>>

\* the caller of createEvent (handleCreateEvent of the calendar page) takes
\* the result; the session is free for its next createEvent
handleCreateEvent(s) ==
  /\ pc[s] = "returned"
  /\ pc' = [pc EXCEPT ![s] = "idle"]
  /\ cur' = [cur EXCEPT ![s] = Idle]
  /\ calls' = [calls EXCEPT ![s] = <<>>]
  /\ UNCHANGED <<storeVars, localEvents, error, pendingUpdate, pendingDelete, deleted,
                 failures, overlapVars, viewVars>>

\* the detector returns, and createEvent returns createdEvent; ok and error
\* are the return value and the error state the call leaves
DetectorReturns(s, c) ==
  /\ pc' = [pc EXCEPT ![s] = "returned"]
  /\ cur' = [cur EXCEPT ![s] = [c EXCEPT !.ok = TRUE, !.todo = <<>>, !.step = 0,
                                         !.error = error[s]]]

Did(c, op) == [c EXCEPT !.trace = Append(@, op)]
DidFail(c, op) == [c EXCEPT !.trace = Append(@, op), !.failed = @ \cup {op}]

\* a detector that goes from the friends to the existing notifications,
\* without the events of the friends
getUserFriendsOnly(s) ==
  /\ pc[s] = "friends"
  /\ cur' = [cur EXCEPT ![s] = [Did(@, "getUserFriends") EXCEPT !.friends = friends[s]]]
  /\ pc' = [pc EXCEPT ![s] = "notifications"]
  /\ UNCHANGED <<storeVars, localEvents, error, pendingUpdate, pendingDelete, calls, deleted,
                 failures, overlapVars, viewVars>>

\* getUserFriends of the calendar store: the friends array of the user
\* document, then the friends' documents (every user document exists)
getUserFriends(s) ==
  /\ pc[s] = "friends"
  /\ IF friends[s] = <<>>
       THEN DetectorReturns(s, Did(cur[s], "getUserFriends"))
       ELSE /\ cur' = [cur EXCEPT ![s] = [Did(@, "getUserFriends") EXCEPT !.friends = friends[s]]]
            /\ pc' = [pc EXCEPT ![s] = "events"]
  /\ UNCHANGED <<storeVars, localEvents, error, pendingUpdate, pendingDelete, calls, deleted,
                 failures, overlapVars, viewVars>>

\* getUserFriends catches the store error and returns []
getUserFriendsFails(s) ==
  /\ pc[s] = "friends"
  /\ CanFail /\ Fail
  /\ DetectorReturns(s, DidFail(cur[s], "getUserFriends"))
  /\ UNCHANGED <<storeVars, localEvents, error, pendingUpdate, pendingDelete, calls, deleted,
                 overlapVars, viewVars>>

\* the events of the friends without the filter on the type
EventsOfAnyType(allEvents) == allEvents

\* friendHangouts: the hangouts among the friends' events
FriendHangouts(allEvents) == SelectSeq(allEvents, LAMBDA e : e.type = "hangout")

getEventsOfFriends(s) ==
  /\ pc[s] = "events"
  /\ cur' = [cur EXCEPT ![s] = [Did(@, "getEventsByUserIds") EXCEPT
                 !.friendHangouts = FriendHangouts(getEventsByUserIds(cur[s].friends))]]
  /\ pc' = [pc EXCEPT ![s] = "notifications"]
  /\ UNCHANGED <<storeVars, localEvents, error, pendingUpdate, pendingDelete, calls,
                 deleted, failures, overlapVars, viewVars>>

\* getEventsByUserIds catches the store error and returns []
getEventsOfFriendsFails(s) ==
  /\ pc[s] = "events"
  /\ CanFail /\ Fail
  /\ cur' = [cur EXCEPT ![s] = DidFail(@, "getEventsByUserIds")]
  /\ pc' = [pc EXCEPT ![s] = "notifications"]
  /\ UNCHANGED <<storeVars, localEvents, error, pendingUpdate, pendingDelete, calls,
                 deleted, overlapVars, viewVars>>

\* ------------------------------------------------- checkForHangoutMatches
\* the loop over every friend hangout, without the filter
allFriendHangouts(friendHangouts, friend) == friendHangouts

\* friendHangouts.filter(event => event.userId === friend.id)
friendHangoutsForUser(friendHangouts, friend) ==
  SelectSeq(friendHangouts, LAMBDA e : e.userId = friend)

\* a loop body without the de-duplication test
neverNotified(safeNotifications, hangoutEvent, friendHangout) == FALSE

\* the de-duplication test of the loop body
alreadyNotified(safeNotifications, hangoutEvent, friendHangout) ==
  \E i \in 1..Len(safeNotifications) :
    /\ safeNotifications[i].type = "hangout_match"
    /\ Includes(safeNotifications[i].data.hangoutEvents, hangoutEvent.id)
    /\ Includes(safeNotifications[i].data.hangoutEvents, friendHangout.id)

NewMatch(friend, friendHangout, overlap) ==
  [friend |-> friend, event2 |-> friendHangout, overlap |-> overlap]

\* the inner loop: one friend's hangouts, in order
RECURSIVE MatchesOfFriend(_, _, _, _)
MatchesOfFriend(hangoutEvent, friend, hangouts, safeNotifications) ==
  IF hangouts = <<>> THEN <<>>
  ELSE LET friendHangout == Head(hangouts)
           overlap == getTimeOverlap(hangoutEvent, friendHangout)
           rest == MatchesOfFriend(hangoutEvent, friend, Tail(hangouts), safeNotifications)
       IN IF overlap # Null /\ ~alreadyNotified(safeNotifications, hangoutEvent, friendHangout)
            THEN <<NewMatch(friend, friendHangout, overlap)>> \o rest
            ELSE rest

\* the outer loop left after its first friend
DetectFirstFriend(hangoutEvent, friendList, friendHangouts, safeNotifications) ==
  IF friendList = <<>> THEN <<>>
  ELSE MatchesOfFriend(hangoutEvent, Head(friendList),
                       friendHangoutsForUser(friendHangouts, Head(friendList)),
                       safeNotifications)

\* the outer loop: the createHangoutMatch calls of one detector run, in order
RECURSIVE DetectMatches(_, _, _, _)
DetectMatches(hangoutEvent, friendList, friendHangouts, safeNotifications) ==
  IF friendList = <<>> THEN <<>>
  ELSE MatchesOfFriend(hangoutEvent, Head(friendList),
                       friendHangoutsForUser(friendHangouts, Head(friendList)),
                       safeNotifications)
       \o DetectMatches(hangoutEvent, Tail(friendList), friendHangouts, safeNotifications)

\* the unordered event-id pairs of the hangout_match notifications in a list
PairsOf(list) ==
  {{list[i].data.hangoutEvents[1], list[i].data.hangoutEvents[2]} :
     i \in {j \in 1..Len(list) : list[j].type = "hangout_match"}}

NewCall(hangoutEvent, match) ==
  [event1 |-> hangoutEvent.id, event2 |-> match.event2.id, user1 |-> hangoutEvent.userId,
   user2 |-> match.event2.userId, friend |-> match.friend, overlap |-> match.overlap,
   written |-> <<>>, failed |-> FALSE, done |-> FALSE]

\* the loop reaches its first createHangoutMatch call, or the detector returns
StartMatches(s, c, safeNotifications) ==
  LET todo == DetectMatches(c.event, c.friends, c.friendHangouts, safeNotifications)
      seen == [c EXCEPT !.seen = PairsOf(notifications[s])]
  IN IF todo = <<>>
       THEN /\ DetectorReturns(s, seen)
            /\ UNCHANGED calls
       ELSE /\ cur' = [cur EXCEPT ![s] = [seen EXCEPT !.todo = todo, !.step = 1]]
            /\ pc' = [pc EXCEPT ![s] = "match"]
            /\ calls' = [calls EXCEPT ![s] = <<NewCall(c.event, Head(todo))>>]

\* the existing notifications are read; the loop runs up to its first await
getExistingNotifications(s) ==
  /\ pc[s] = "notifications"
  /\ StartMatches(s, Did(cur[s], "getUserNotifications"), getUserNotifications(s))
  /\ UNCHANGED <<storeVars, localEvents, error, pendingUpdate, pendingDelete, deleted,
                 failures, overlapVars, viewVars>>

\* getUserNotifications catches the store error and returns []
getExistingNotificationsFails(s) ==
  /\ pc[s] = "notifications"
  /\ CanFail /\ Fail
  /\ StartMatches(s, DidFail(cur[s], "getUserNotifications"), <<>>)
  /\ UNCHANGED <<storeVars, localEvents, error, pendingUpdate, pendingDelete, deleted,
                 overlapVars, viewVars>>

\* ----------------------------------------------------- createHangoutMatch
\* the find with === in the place of !==
SameUserId(users, notificationUserId) == notificationUserId

\* users.find(id => id !== notificationUserId)
OtherUserId(users, notificationUserId) ==
  IF \E i \in 1..Len(users) : users[i] # notificationUserId
    THEN users[CHOOSE i \in 1..Len(users) :
                 /\ users[i] # notificationUserId
                 /\ \A j \in 1..(i - 1) : users[j] = notificationUserId]
    ELSE Undefined

\* the notification built in the loop body of createHangoutMatch
MatchNotification(call, notificationUserId) ==
  Notification(notificationUserId, "hangout_match",
    [NoData EXCEPT
       !.matchedUserId = OtherUserId(<<call.user1, call.user2>>, notificationUserId),
       !.overlappingTime = call.overlap,
       !.hangoutEvents = <<call.event1, call.event2>>])

CurrentCall(s) == calls[s][Len(calls[s])]
NotificationUserId(s) == <<CurrentCall(s).user1, CurrentCall(s).user2>>[cur[s].step]

\* notificationUserId === userId ? otherUser : await getDoc(...)
ReadsTargetUser(s) == NotificationUserId(s) # s

\* the for loop of createHangoutMatch goes on, or the call returns and the
\* detector loop goes on to its next call, or the detector returns
AfterIteration(s, c, call, ends) ==
  IF ~ends
    THEN /\ calls' = [calls EXCEPT ![s][Len(calls[s])] = call]
         /\ cur' = [cur EXCEPT ![s] = [c EXCEPT !.step = @ + 1]]
         /\ UNCHANGED pc
    ELSE LET finished == [call EXCEPT !.done = TRUE]
             rest == Tail(c.todo)
         IN IF rest = <<>>
              THEN /\ calls' = [calls EXCEPT ![s][Len(calls[s])] = finished]
                   /\ DetectorReturns(s, c)
              ELSE /\ calls' = [calls EXCEPT ![s] =
                        Append([@ EXCEPT ![Len(@)] = finished], NewCall(c.event, Head(rest)))]
                   /\ cur' = [cur EXCEPT ![s] = [c EXCEPT !.todo = rest, !.step = 1]]
                   /\ UNCHANGED pc

ReadTrace(s, c) == IF ReadsTargetUser(s) THEN Did(c, "getDoc") ELSE c

\* one iteration of the loop in createHangoutMatch: the target user is the
\* friend passed in, or is read from the store, and the notification is
\* written
createMatchNotification(s) ==
  /\ pc[s] = "match"
  /\ LET call == CurrentCall(s)
         n == MatchNotification(call, NotificationUserId(s))
     IN /\ notifications' = addNotification(notifications, n)
        /\ AfterIteration(s, Did(ReadTrace(s, cur[s]), "createNotification"),
                          [call EXCEPT !.written = Append(@, n)], cur[s].step = 2)
  /\ UNCHANGED <<friends, reqSent, reqReceived, eventDocs, nextEventId, localEvents, error,
                 pendingUpdate, pendingDelete, deleted, failures, overlapVars, viewVars>>

\* createNotification catches the store error and returns null, which
\* createHangoutMatch does not look at
createMatchNotificationFails(s) ==
  /\ pc[s] = "match"
  /\ CanFail /\ Fail
  /\ AfterIteration(s, DidFail(ReadTrace(s, cur[s]), "createNotification"),
                    [CurrentCall(s) EXCEPT !.failed = TRUE], cur[s].step = 2)
  /\ UNCHANGED <<storeVars, localEvents, error, pendingUpdate, pendingDelete, deleted,
                 overlapVars, viewVars>>

\* the getDoc of the other participant throws: createHangoutMatch logs the
\* error and returns
getTargetUserFails(s) ==
  /\ pc[s] = "match"
  /\ ReadsTargetUser(s)
  /\ CanFail /\ Fail
  /\ AfterIteration(s, DidFail(cur[s], "getDoc"), [CurrentCall(s) EXCEPT !.failed = TRUE], TRUE)
  /\ UNCHANGED <<storeVars, localEvents, error, pendingUpdate, pendingDelete, deleted,
                 overlapVars, viewVars>>

\* ------------------------------------------------------ getHangoutMatches
\* if (!userId) return []; then, in the try block, return []
getHangoutMatches(userId) ==
  IF userId = Undefined THEN <<>> ELSE <<>>

\* ------------------------------------------------- getOverlappingHangouts
\* the calendar day (date, month, year) of an instant
CalendarDay(ms) == IF ms = NaN THEN NaN ELSE ms \div InstantsPerDay

\* any calendar day: the test of the day left out
AnyDay(eventDate, targetDate) == TRUE

\* eventDate.getDate() === targetDate.getDate() && ... getMonth ... getFullYear
SameDay(eventDate, targetDate) ==
  /\ CalendarDay(eventDate) # NaN
  /\ CalendarDay(eventDate) = CalendarDay(targetDate)

Overlap(userEvent, friendEvent, friend, overlap) ==
  [userEvent |-> userEvent, friendEvent |-> friendEvent, friend |-> friend,
   overlap |-> overlap]

\* friendHangouts.forEach(friendEvent => ...)
RECURSIVE OverlapsOfFriend(_, _, _)
OverlapsOfFriend(userEvent, friend, hangouts) ==
  IF hangouts = <<>> THEN <<>>
  ELSE LET overlap == getTimeOverlap(userEvent, Head(hangouts))
           rest == OverlapsOfFriend(userEvent, friend, Tail(hangouts))
       IN IF overlap # Null
            THEN <<Overlap(userEvent, Head(hangouts), friend, overlap)>> \o rest
            ELSE rest

\* friends.forEach(friend => ...)
RECURSIVE OverlapsOfEvent(_, _, _)
OverlapsOfEvent(userEvent, friendList, allFriendEvents) ==
  IF friendList = <<>> THEN <<>>
  ELSE OverlapsOfFriend(userEvent, Head(friendList),
         SelectSeq(allFriendEvents,
                   LAMBDA e : e.userId = Head(friendList) /\ e.type = "hangout"))
       \o OverlapsOfEvent(userEvent, Tail(friendList), allFriendEvents)

\* userHangouts.forEach(userEvent => ...)
RECURSIVE OverlapsOn(_, _, _, _)
OverlapsOn(userHangouts, friendList, allFriendEvents, targetDate) ==
  IF userHangouts = <<>> THEN <<>>
  ELSE (IF SameDay(GetTime(Head(userHangouts).startTime), targetDate)
          THEN OverlapsOfEvent(Head(userHangouts), friendList, allFriendEvents)
          ELSE <<>>)
       \o OverlapsOn(Tail(userHangouts), friendList, allFriendEvents, targetDate)

TargetDates == 0..MaxTime

\* getOverlappingHangouts up to its first await; userHangouts are the
\* hangouts of the local event list
getOverlappingHangouts(s, targetDate) ==
  /\ pc[s] = "idle"
  /\ pc' = [pc EXCEPT ![s] = "overlapFriends"]
  /\ cur' = [cur EXCEPT ![s] = [Idle EXCEPT !.targetDate = targetDate,
                                           !.userHangouts = FriendHangouts(localEvents[s]),
                                           !.since = nextEventId]]
  /\ UNCHANGED <<storeVars, localEvents, error, pendingUpdate, pendingDelete, calls, deleted,
                 failures, overlapVars, viewVars>>

OverlapsReturned(s, c, overlaps) ==
  /\ pc' = [pc EXCEPT ![s] = "overlapReturned"]
  /\ cur' = [cur EXCEPT ![s] = [c EXCEPT !.overlaps = overlaps]]

\* the friends are read; without friends the result is []
overlapsGetUserFriends(s) ==
  /\ pc[s] = "overlapFriends"
  /\ IF friends[s] = <<>>
       THEN OverlapsReturned(s, Did(cur[s], "getUserFriends"), <<>>)
       ELSE /\ cur' = [cur EXCEPT ![s] = [Did(@, "getUserFriends") EXCEPT !.friends = friends[s]]]
            /\ pc' = [pc EXCEPT ![s] = "overlapEvents"]
  /\ UNCHANGED <<storeVars, localEvents, error, pendingUpdate, pendingDelete, calls, deleted,
                 failures, overlapVars, viewVars>>

\* getUserFriends catches the store error and returns []
overlapsGetUserFriendsFails(s) ==
  /\ pc[s] = "overlapFriends"
  /\ CanFail /\ Fail
  /\ OverlapsReturned(s, DidFail(cur[s], "getUserFriends"), <<>>)
  /\ UNCHANGED <<storeVars, localEvents, error, pendingUpdate, pendingDelete, calls, deleted,
                 overlapVars, viewVars>>

\* the events of the friends are read and the overlaps are collected
overlapsGetEvents(s) ==
  /\ pc[s] = "overlapEvents"
  /\ LET c == Did(cur[s], "getEventsByUserIds")
         allFriendEvents == getEventsByUserIds(c.friends)
     IN OverlapsReturned(s, [c EXCEPT !.friendHangouts = FriendHangouts(allFriendEvents)],
                         OverlapsOn(c.userHangouts, c.friends, allFriendEvents, c.targetDate))
  /\ UNCHANGED <<storeVars, localEvents, error, pendingUpdate, pendingDelete, calls, deleted,
                 failures, overlapVars, viewVars>>

\* getEventsByUserIds catches the store error and returns []
overlapsGetEventsFails(s) ==
  /\ pc[s] = "overlapEvents"
  /\ CanFail /\ Fail
  /\ OverlapsReturned(s, DidFail(cur[s], "getEventsByUserIds"),
                      OverlapsOn(cur[s].userHangouts, cur[s].friends, <<>>, cur[s].targetDate))
  /\ UNCHANGED <<storeVars, localEvents, error, pendingUpdate, pendingDelete, calls, deleted,
                 overlapVars, viewVars>>

\* the caller takes the result
overlapsTaken(s) ==
  /\ pc[s] = "overlapReturned"
  /\ pc' = [pc EXCEPT ![s] = "idle"]
  /\ cur' = [cur EXCEPT ![s] = Idle]
  /\ UNCHANGED <<storeVars, localEvents, error, pendingUpdate, pendingDelete, calls, deleted,
                 failures, overlapVars, viewVars>>

\* ------------------------------------------------ updateEvent, deleteEvent
\* safeEvents.find(e => e.id === eventId)
FindLocal(s, eventId) ==
  IF \E i \in 1..Len(localEvents[s]) : localEvents[s][i].id = eventId
    THEN localEvents[s][CHOOSE i \in 1..Len(localEvents[s]) :
                          /\ localEvents[s][i].id = eventId
                          /\ \A j \in 1..(i - 1) : localEvents[s][j].id # eventId]
    ELSE NoDoc

\* the call going on without the test of the event and its owner
AlwaysMayChange(s, event) == TRUE

\* if (!event || event.userId !== userId) return false
MayChange(s, event) == event.exists /\ event.userId = s

Pending(eventId, event, updates) ==
  [id |-> eventId, event |-> event, updates |-> updates, state |-> "store", ok |-> FALSE,
   failed |-> {}, error |-> NoError]

\* the call returns: its return value and the error state it leaves
Returned(p, ok, failed, err) ==
  [p EXCEPT !.state = "returned", !.ok = ok, !.failed = failed, !.error = err]

\* updateEvent up to its await; it returns false at once for an event the
\* session does not hold or does not own
updateEvent(s, eventId, updates) ==
  /\ pendingUpdate[s] = NoPending
  /\ error' = [error EXCEPT ![s] = NoError]
  /\ LET event == FindLocal(s, eventId)
         p == Pending(eventId, event, updates)
     IN pendingUpdate' = [pendingUpdate EXCEPT ![s] =
          IF MayChange(s, event) THEN p ELSE Returned(p, FALSE, {}, NoError)]
  /\ UNCHANGED <<storeVars, localEvents, pc, cur, pendingDelete, calls, deleted, failures,
                 overlapVars, viewVars>>

\* prev.map(e => e.id === eventId ? updatedEvent : e)
ReplaceLocal(events, eventId, updatedEvent) ==
  [i \in 1..Len(events) |-> IF events[i].id = eventId THEN updatedEvent ELSE events[i]]

\* the updateDoc of updateEventService is carried out: it throws for a
\* missing document, which the service turns into false
updateEventStore(s) ==
  /\ pendingUpdate[s] # NoPending
  /\ pendingUpdate[s].state = "store"
  /\ LET p == pendingUpdate[s]
         success == updateDoc(eventDocs, p.id, p.updates)
     IN /\ eventDocs' = success.docs
        /\ localEvents' = [localEvents EXCEPT ![s] =
             IF success.ok THEN ReplaceLocal(@, p.id, mergeUpdates(p.event, p.updates)) ELSE @]
        /\ pendingUpdate' = [pendingUpdate EXCEPT ![s] = Returned(p, success.ok, {}, error[s])]
  /\ UNCHANGED <<friends, reqSent, reqReceived, nextEventId, notifications, error, pc, cur,
                 pendingDelete, calls, deleted, failures, overlapVars, viewVars>>

\* the store fails: updateEventService catches and returns false
updateEventStoreFails(s) ==
  /\ pendingUpdate[s] # NoPending
  /\ pendingUpdate[s].state = "store"
  /\ CanFail /\ Fail
  /\ pendingUpdate' = [pendingUpdate EXCEPT ![s] = Returned(@, FALSE, {"updateEvent"}, error[s])]
  /\ UNCHANGED <<storeVars, localEvents, error, pc, cur, pendingDelete, calls, deleted,
                 overlapVars, viewVars>>

\* the caller of updateEvent takes the result
updateEventReturns(s) ==
  /\ pendingUpdate[s] # NoPending
  /\ pendingUpdate[s].state = "returned"
  /\ pendingUpdate' = [pendingUpdate EXCEPT ![s] = NoPending]
  /\ UNCHANGED <<storeVars, localEvents, error, pc, cur, pendingDelete, calls, deleted,
                 failures, overlapVars, viewVars>>

\* deleteEvent up to its await
deleteEvent(s, eventId) ==
  /\ pendingDelete[s] = NoPending
  /\ error' = [error EXCEPT ![s] = NoError]
  /\ LET event == FindLocal(s, eventId)
         p == Pending(eventId, event, Null)
     IN pendingDelete' = [pendingDelete EXCEPT ![s] =
          IF MayChange(s, event) THEN p ELSE Returned(p, FALSE, {}, NoError)]
  /\ UNCHANGED <<storeVars, localEvents, pc, cur, pendingUpdate, calls, deleted, failures,
                 overlapVars, viewVars>>

\* the notifications that do not list the event
WithoutEvent(list, eventId) ==
  SelectSeq(list, LAMBDA n : ~Includes(n.data.hangoutEvents, eventId))

\* a deleteEvent that takes the notifications of the event back
deleteEventRetracting(s) ==
  /\ pendingDelete[s] # NoPending
  /\ pendingDelete[s].state = "store"
  /\ LET eventId == pendingDelete[s].id
     IN /\ eventDocs' = [eventDocs EXCEPT ![eventId] = NoDoc]
        /\ localEvents' = [localEvents EXCEPT ![s] = SelectSeq(@, LAMBDA e : e.id # eventId)]
        /\ deleted' = deleted \cup {eventId}
        /\ notifications' = [u \in Users |-> WithoutEvent(notifications[u], eventId)]
  /\ pendingDelete' = [pendingDelete EXCEPT ![s] = Returned(@, TRUE, {}, error[s])]
  /\ UNCHANGED <<friends, reqSent, reqReceived, nextEventId, error, pc, cur,
                 pendingUpdate, calls, failures, overlapVars, viewVars>>

\* the deleteDoc of deleteEventService is carried out (it succeeds for a
\* missing document as well)
deleteEventStore(s) ==
  /\ pendingDelete[s] # NoPending
  /\ pendingDelete[s].state = "store"
  /\ LET eventId == pendingDelete[s].id
     IN /\ eventDocs' = [eventDocs EXCEPT ![eventId] = NoDoc]
        /\ localEvents' = [localEvents EXCEPT ![s] = SelectSeq(@, LAMBDA e : e.id # eventId)]
        /\ deleted' = deleted \cup {eventId}
  /\ pendingDelete' = [pendingDelete EXCEPT ![s] = Returned(@, TRUE, {}, error[s])]
  /\ UNCHANGED <<friends, reqSent, reqReceived, nextEventId, notifications, error, pc, cur,
                 pendingUpdate, calls, failures, overlapVars, viewVars>>

\* the store fails: deleteEventService catches and returns false
deleteEventStoreFails(s) ==
  /\ pendingDelete[s] # NoPending
  /\ pendingDelete[s].state = "store"
  /\ CanFail /\ Fail
  /\ pendingDelete' = [pendingDelete EXCEPT ![s] = Returned(@, FALSE, {"deleteEvent"}, error[s])]
  /\ UNCHANGED <<storeVars, localEvents, error, pc, cur, pendingUpdate, calls, deleted,
                 overlapVars, viewVars>>

\* the caller of deleteEvent (handleDeleteEvent of the calendar page) takes
\* the result
handleDeleteEvent(s) ==
  /\ pendingDelete[s] # NoPending
  /\ pendingDelete[s].state = "returned"
  /\ pendingDelete' = [pendingDelete EXCEPT ![s] = NoPending]
  /\ UNCHANGED <<storeVars, localEvents, error, pc, cur, pendingUpdate, calls, deleted,
                 failures, overlapVars, viewVars>>

\* checkEventOverlap, its two reads taken at one state: the first overlap
\* of the local hangout eventId of the user with a hangout of a friend, or
\* null
checkEventOverlap(s, eventId) ==
  LET safeEvents == SelectSeq(localEvents[s],
                              LAMBDA e : e.id = eventId /\ e.type = "hangout")
  IN IF safeEvents = <<>> THEN Null
     ELSE IF Head(safeEvents).userId # s THEN Null
     ELSE IF friends[s] = <<>> THEN Null
     ELSE LET found == OverlapsOfEvent(Head(safeEvents), friends[s],
                                       getEventsByUserIds(friends[s]))
          IN IF found = <<>> THEN Null ELSE Head(found)

\* loadEvents: the error state is reset and the local list is replaced by
\* the result of getUserEvents
loadEvents(s) ==
  /\ error' = [error EXCEPT ![s] = NoError]
  /\ localEvents' = [localEvents EXCEPT ![s] = getUserEvents(s)]
  /\ UNCHANGED <<storeVars, pc, cur, pendingUpdate, pendingDelete, calls, deleted, failures,
                 overlapVars, viewVars>>

\* the store fails: getUserEvents catches and returns [], which loadEvents
\* sets as the local list
loadEventsFails(s) ==
  /\ CanFail /\ Fail
  /\ error' = [error EXCEPT ![s] = NoError]
  /\ localEvents' = [localEvents EXCEPT ![s] = <<>>]
  /\ UNCHANGED <<storeVars, pc, cur, pendingUpdate, pendingDelete, calls, deleted,
                 overlapVars, viewVars>>

\* ----------------------------------------------------- notification store
NotificationDoc(id, userId, read) ==
  [exists |-> TRUE, id |-> id, userId |-> userId, read |-> read]

\* the documents of the user, orderBy createdAt desc (the ids follow the
\* creation order)
NotificationsOf(docs, userId) ==
  LET ids == {i \in NotificationIds : docs[i].exists /\ docs[i].userId = userId}
      order == Reverse(SeqOfSet(ids))
  IN [k \in 1..Len(order) |-> docs[order[k]]]

\* notificationService.createNotification: a new unread document for userId
createNotification(userId) ==
  /\ nextNotificationId <= MaxNotifications
  /\ notificationDocs' = [notificationDocs EXCEPT ![nextNotificationId] =
       NotificationDoc(nextNotificationId, userId, FALSE)]
  /\ nextNotificationId' = nextNotificationId + 1
  /\ UNCHANGED <<storeVars, sessionVars, deleted, failures, overlapVars, localNotifications,
                 notificationError, delivered, lastCall, authVars>>

\* the onSnapshot listener of the session is given the documents of the
\* user after they changed: setNotifications(userNotifications), setError(null)
onSnapshot(s) ==
  /\ delivered[s] # NotificationsOf(notificationDocs, s)
  /\ delivered' = [delivered EXCEPT ![s] = NotificationsOf(notificationDocs, s)]
  /\ localNotifications' = [localNotifications EXCEPT ![s] = NotificationsOf(notificationDocs, s)]
  /\ notificationError' = [notificationError EXCEPT ![s] = NoError]
  /\ UNCHANGED <<storeVars, sessionVars, deleted, failures, overlapVars, notificationDocs,
                 nextNotificationId, lastCall, authVars>>

LocalIds(s) == {localNotifications[s][k].id : k \in 1..Len(localNotifications[s])}

\* prev.map(n => n.id === notificationId ? { ...n, read: true } : n)
MarkedRead(list, notificationId) ==
  [k \in 1..Len(list) |-> IF list[k].id = notificationId
                            THEN [list[k] EXCEPT !.read = TRUE] ELSE list[k]]

\* a call of the notification store has resolved: what it was, the result of
\* its service call, and the local list before it
Resolved(s, op, notificationId, success) ==
  lastCall' = [lastCall EXCEPT ![s] =
    [op |-> op, id |-> notificationId, ok |-> success, before |-> localNotifications[s]]]

\* markAsRead: the service's updateDoc throws for a missing document, which
\* the service turns into false; the store does not look at the result
markAsRead(s, notificationId) ==
  /\ notificationId \in LocalIds(s)
  /\ LET success == notificationDocs[notificationId].exists
     IN /\ notificationDocs' = IF success
             THEN [notificationDocs EXCEPT ![notificationId].read = TRUE]
             ELSE notificationDocs
        /\ Resolved(s, "markAsRead", notificationId, success)
  /\ localNotifications' = [localNotifications EXCEPT ![s] = MarkedRead(@, notificationId)]
  /\ UNCHANGED <<storeVars, sessionVars, deleted, failures, overlapVars, nextNotificationId,
                 notificationError, delivered, authVars>>

\* the store fails: the service catches and returns false, the store goes on
markAsReadFails(s, notificationId) ==
  /\ notificationId \in LocalIds(s)
  /\ CanFail /\ Fail
  /\ Resolved(s, "markAsRead", notificationId, FALSE)
  /\ localNotifications' = [localNotifications EXCEPT ![s] = MarkedRead(@, notificationId)]
  /\ UNCHANGED <<storeVars, sessionVars, deleted, overlapVars, notificationDocs,
                 nextNotificationId, notificationError, delivered, authVars>>

\* deleteNotification: deleteDoc, then prev.filter(n => n.id !== notificationId)
deleteNotification(s, notificationId) ==
  /\ notificationId \in LocalIds(s)
  /\ notificationDocs' = [notificationDocs EXCEPT ![notificationId] = NoNotification]
  /\ Resolved(s, "deleteNotification", notificationId, TRUE)
  /\ localNotifications' = [localNotifications EXCEPT ![s] =
       SelectSeq(@, LAMBDA n : n.id # notificationId)]
  /\ UNCHANGED <<storeVars, sessionVars, deleted, failures, overlapVars, nextNotificationId,
                 notificationError, delivered, authVars>>

\* the store fails: the service catches and returns false, the store goes on
deleteNotificationFails(s, notificationId) ==
  /\ notificationId \in LocalIds(s)
  /\ CanFail /\ Fail
  /\ Resolved(s, "deleteNotification", notificationId, FALSE)
  /\ localNotifications' = [localNotifications EXCEPT ![s] =
       SelectSeq(@, LAMBDA n : n.id # notificationId)]
  /\ UNCHANGED <<storeVars, sessionVars, deleted, overlapVars, notificationDocs,
                 nextNotificationId, notificationError, delivered, authVars>>

\* clearAllNotifications: the documents of the user are deleted in one
\* batch, then setNotifications([])
clearAllNotifications(s) ==
  /\ notificationDocs' = [i \in NotificationIds |->
       IF notificationDocs[i].exists /\ notificationDocs[i].userId = s
         THEN NoNotification ELSE notificationDocs[i]]
  /\ Resolved(s, "clearAllNotifications", Undefined, TRUE)
  /\ localNotifications' = [localNotifications EXCEPT ![s] = <<>>]
  /\ UNCHANGED <<storeVars, sessionVars, deleted, failures, overlapVars, nextNotificationId,
                 notificationError, delivered, authVars>>

\* the store fails: the service catches and returns false, the store goes on
clearAllNotificationsFails(s) ==
  /\ CanFail /\ Fail
  /\ Resolved(s, "clearAllNotifications", Undefined, FALSE)
  /\ localNotifications' = [localNotifications EXCEPT ![s] = <<>>]
  /\ UNCHANGED <<storeVars, sessionVars, deleted, overlapVars, notificationDocs,
                 nextNotificationId, notificationError, delivered, authVars>>

\* --------------------------------------------------------------- auth store
\* setState({ user, isAuthenticated: !!user, isLoading: false })
Authenticated(user) == [user |-> user, isAuthenticated |-> user # Undefined]

\* login: signInUser signs in at the provider and returns the user document,
\* and login sets the state; the provider notifies the auth-state listener,
\* whose callback starts to wait for its read of the user document
login(userId) ==
  /\ ~state.isAuthenticated
  /\ signIns < MaxSignIns
  /\ signIns' = signIns + 1
  /\ currentUser' = userId
  /\ pendingCallbacks' = Append(pendingCallbacks, userId)
  /\ state' = [user |-> userId, isAuthenticated |-> TRUE]
  /\ UNCHANGED <<storeVars, sessionVars, deleted, failures, overlapVars, notificationVars>>

\* signInUser returns { success: false }: the state is left as it is
loginFails(userId) ==
  /\ ~state.isAuthenticated
  /\ signIns < MaxSignIns
  /\ CanFail /\ Fail
  /\ UNCHANGED <<storeVars, sessionVars, deleted, overlapVars, notificationVars, authVars>>

Without(list, k) == [i \in 1..(Len(list) - 1) |-> IF i < k THEN list[i] ELSE list[i + 1]]

\* the delayed read of a waiting callback has come back with the user
\* document: callback(userData)
authStateCallback(k) ==
  /\ k \in 1..Len(pendingCallbacks)
  /\ state' = Authenticated(pendingCallbacks[k])
  /\ pendingCallbacks' = Without(pendingCallbacks, k)
  /\ UNCHANGED <<storeVars, sessionVars, deleted, failures, overlapVars, notificationVars,
                 currentUser, signIns>>

\* the read of a waiting callback fails: callback(null)
authStateCallbackFails(k) ==
  /\ k \in 1..Len(pendingCallbacks)
  /\ CanFail /\ Fail
  /\ state' = Authenticated(Undefined)
  /\ pendingCallbacks' = Without(pendingCallbacks, k)
  /\ UNCHANGED <<storeVars, sessionVars, deleted, overlapVars, notificationVars,
                 currentUser, signIns>>

\* logout: signOutUser signs out at the provider, whose listener calls
\* callback(null) without a wait, and logout sets the signed-out state
logout ==
  /\ state.isAuthenticated
  /\ currentUser' = Undefined
  /\ state' = SignedOut
  /\ UNCHANGED <<storeVars, sessionVars, deleted, failures, overlapVars, notificationVars,
                 pendingCallbacks, signIns>>

\* signOutUser throws: logout logs the error and leaves the state
logoutFails ==
  /\ state.isAuthenticated
  /\ CanFail /\ Fail
  /\ UNCHANGED <<storeVars, sessionVars, deleted, overlapVars, notificationVars, authVars>>

\* ------------------------------------------------------------ the program
Friendship ==
  \/ \E u, v \in Users : sendFriendRequest(u, v)
  \/ \E u, v \in Users : acceptFriendRequest(u, v)
  \/ \E u, v \in Users : rejectFriendRequest(u, v)
  \/ \E u, v \in Users : sendFriendRequestFails(u, v)
  \/ \E u, v \in Users : acceptFriendRequestFails(u, v)
  \/ \E u, v \in Users : rejectFriendRequestFails(u, v)

Creation(U) ==
  \/ \E s \in U, eventData \in EventInputs : createEvent(s, eventData)
  \/ \E s \in U, eventData \in EventInputs : createEventFails(s, eventData)
  \/ \E s \in U : handleCreateEvent(s)
  \/ \E s \in U : getUserFriends(s)
  \/ \E s \in U : getUserFriendsFails(s)

Detection ==
  \/ \E s \in Users : getEventsOfFriends(s)
  \/ \E s \in Users : getEventsOfFriendsFails(s)
  \/ \E s \in Users : getExistingNotifications(s)
  \/ \E s \in Users : getExistingNotificationsFails(s)
  \/ \E s \in Users : createMatchNotification(s)
  \/ \E s \in Users : createMatchNotificationFails(s)
  \/ \E s \in Users : getTargetUserFails(s)

Deletion(U) ==
  \/ \E s \in U, eventId \in EventIds : deleteEvent(s, eventId)
  \/ \E s \in U : deleteEventStore(s)
  \/ \E s \in U : deleteEventStoreFails(s)
  \/ \E s \in U : handleDeleteEvent(s)

Changes(U) ==
  \/ \E s \in U, eventId \in EventIds, updates \in UpdateInputs :
       updateEvent(s, eventId, updates)
  \/ \E s \in U : updateEventStore(s)
  \/ \E s \in U : updateEventStoreFails(s)
  \/ \E s \in U : updateEventReturns(s)
  \/ Deletion(U)

Queries(U) ==
  \/ \E s \in U, targetDate \in TargetDates : getOverlappingHangouts(s, targetDate)
  \/ \E s \in U : overlapsGetUserFriends(s)
  \/ \E s \in U : overlapsGetUserFriendsFails(s)
  \/ \E s \in U : overlapsGetEvents(s)
  \/ \E s \in U : overlapsGetEventsFails(s)
  \/ \E s \in U : overlapsTaken(s)

\* The friendships: requests sent, accepted and rejected, nothing else
SpecFriends == Init /\ [][Friendship]_vars

\* The state after user 1 has sent a request to every other user and each
\* has accepted it, in the order of the user ids: user 1 is a friend of
\* everyone, no two other users are friends
RECURSIVE SeqOfRange(_, _)
SeqOfRange(a, b) == IF a > b THEN <<>> ELSE <<a>> \o SeqOfRange(a + 1, b)

StarFriends ==
  /\ friends = [u \in Users |-> IF u = 1 THEN SeqOfRange(2, NumUsers) ELSE <<1>>]
  /\ reqSent = [u \in Users |-> <<>>]
  /\ reqReceived = [u \in Users |-> <<>>]
  /\ notifications = [u \in Users |->
       IF u = 1 THEN <<>>
       ELSE <<Notification(u, "friend_request", [NoData EXCEPT !.fromUserId = 1])>>]

InitMatch ==
  /\ StarFriends
  /\ eventDocs = [i \in EventIds |-> NoDoc]
  /\ nextEventId = 1
  /\ localEvents = [u \in Users |-> <<>>]
  /\ error = [u \in Users |-> NoError]
  /\ pc = [u \in Users |-> "idle"]
  /\ cur = [u \in Users |-> Idle]
  /\ pendingUpdate = [u \in Users |-> NoPending]
  /\ pendingDelete = [u \in Users |-> NoPending]
  /\ calls = [u \in Users |-> <<>>]
  /\ deleted = {}
  /\ failures = 0
  /\ ovA = [startTime |-> ISO(0), endTime |-> ISO(0)]
  /\ ovB = [startTime |-> ISO(0), endTime |-> ISO(0)]
  /\ ovResult = Null
  /\ InitView

\* The matching engine: createEvent and the detector of every session, with
\* the friendships in place
NextMatch == Creation(Users) \/ Detection
SpecMatch == InitMatch /\ [][NextMatch]_vars

\* The event life cycle: createEvent, updateEvent and deleteEvent of the
\* sessions of the first users, who have no friends
Actors == 1..MaxActors
NextEvents == Creation(Actors) \/ Changes(Actors)
SpecEvents == Init /\ [][NextEvents]_vars

\* The state after the last user has created a hangout and its createEvent
\* call has returned
OtherOwner == NumUsers
InitOwner ==
  LET event == EventDoc(1, OtherOwner, ISO(0), ISO(1), "hangout")
  IN /\ friends = [u \in Users |-> <<>>]
     /\ reqSent = [u \in Users |-> <<>>]
     /\ reqReceived = [u \in Users |-> <<>>]
     /\ eventDocs = [i \in EventIds |-> IF i = 1 THEN event ELSE NoDoc]
     /\ nextEventId = 2
     /\ notifications = [u \in Users |-> <<>>]
     /\ localEvents = [u \in Users |-> IF u = OtherOwner THEN <<event>> ELSE <<>>]
     /\ error = [u \in Users |-> NoError]
     /\ pc = [u \in Users |-> "idle"]
     /\ cur = [u \in Users |-> Idle]
     /\ pendingUpdate = [u \in Users |-> NoPending]
     /\ pendingDelete = [u \in Users |-> NoPending]
     /\ calls = [u \in Users |-> <<>>]
     /\ deleted = {}
     /\ failures = 0
     /\ ovA = [startTime |-> ISO(0), endTime |-> ISO(0)]
     /\ ovB = [startTime |-> ISO(0), endTime |-> ISO(0)]
     /\ ovResult = Null
     /\ InitView

\* The event life cycle of the first users next to an event of another user
SpecOwner == InitOwner /\ [][NextEvents]_vars

\* The state after user 1 and the last user have become friends (request of
\* user 1, accepted) and the last user has created a hangout
InitShared ==
  LET event == EventDoc(1, OtherOwner, ISO(0), ISO(1), "hangout")
  IN /\ friends = [u \in Users |-> IF u = 1 THEN <<OtherOwner>>
                                    ELSE IF u = OtherOwner THEN <<1>> ELSE <<>>]
     /\ reqSent = [u \in Users |-> <<>>]
     /\ reqReceived = [u \in Users |-> <<>>]
     /\ eventDocs = [i \in EventIds |-> IF i = 1 THEN event ELSE NoDoc]
     /\ nextEventId = 2
     /\ notifications = [u \in Users |->
          IF u = OtherOwner
            THEN <<Notification(u, "friend_request", [NoData EXCEPT !.fromUserId = 1])>>
            ELSE <<>>]
     /\ localEvents = [u \in Users |-> IF u = OtherOwner THEN <<event>> ELSE <<>>]
     /\ error = [u \in Users |-> NoError]
     /\ pc = [u \in Users |-> "idle"]
     /\ cur = [u \in Users |-> Idle]
     /\ pendingUpdate = [u \in Users |-> NoPending]
     /\ pendingDelete = [u \in Users |-> NoPending]
     /\ calls = [u \in Users |-> <<>>]
     /\ deleted = {}
     /\ failures = 0
     /\ ovA = [startTime |-> ISO(0), endTime |-> ISO(0)]
     /\ ovB = [startTime |-> ISO(0), endTime |-> ISO(0)]
     /\ ovResult = Null
     /\ InitView

\* The event life cycle of the first users, with the detector, next to a
\* hangout of a friend
NextShared == Creation(Actors) \/ Detection \/ Changes(Actors)
SpecShared == InitShared /\ [][NextShared]_vars

\* The day view of the first users: hangouts are created by every user and
\* the overlaps of a day are asked for
NextQuery == Creation(Users) \/ Detection \/ Queries(Actors)
SpecQuery == InitShared /\ [][NextQuery]_vars

\* The state that InitShared leads to when user 1 has created a hangout in
\* the window of the hangout of the friend and its createEvent call, with
\* the match of the two hangouts, has returned
MatchedState ==
  LET friendHangout == EventDoc(1, OtherOwner, ISO(0), ISO(1), "hangout")
      hangoutEvent == EventDoc(2, 1, ISO(0), ISO(1), "hangout")
      call == NewCall(hangoutEvent,
                      NewMatch(OtherOwner, friendHangout,
                               getTimeOverlap(hangoutEvent, friendHangout)))
  IN /\ friends = [u \in Users |-> IF u = 1 THEN <<OtherOwner>>
                                    ELSE IF u = OtherOwner THEN <<1>> ELSE <<>>]
     /\ reqSent = [u \in Users |-> <<>>]
     /\ reqReceived = [u \in Users |-> <<>>]
     /\ eventDocs = [i \in EventIds |->
          IF i = 1 THEN friendHangout ELSE IF i = 2 THEN hangoutEvent ELSE NoDoc]
     /\ nextEventId = 3
     /\ notifications = [u \in Users |->
          IF u = OtherOwner
            THEN <<Notification(u, "friend_request", [NoData EXCEPT !.fromUserId = 1]),
                   MatchNotification(call, u)>>
            ELSE IF u = 1 THEN <<MatchNotification(call, u)>> ELSE <<>>]
     /\ localEvents = [u \in Users |->
          IF u = OtherOwner THEN <<friendHangout>>
          ELSE IF u = 1 THEN <<hangoutEvent>> ELSE <<>>]
     /\ pc = [u \in Users |-> "idle"]
     /\ cur = [u \in Users |-> Idle]
     /\ calls = [u \in Users |-> <<>>]
     /\ deleted = {}
     /\ failures = 0

InitMatched ==
  /\ MatchedState
  /\ error = [u \in Users |-> NoError]
  /\ pendingUpdate = [u \in Users |-> NoPending]
  /\ pendingDelete = [u \in Users |-> NoPending]
  /\ ovA = [startTime |-> ISO(0), endTime |-> ISO(0)]
  /\ ovB = [startTime |-> ISO(0), endTime |-> ISO(0)]
  /\ ovResult = Null
  /\ InitView

\* Friends and hangouts together: requests are sent and accepted while the
\* first users create events next to a hangout of another user
NextSocial ==
  \/ \E u, v \in Users : sendFriendRequest(u, v)
  \/ \E u, v \in Users : acceptFriendRequest(u, v)
  \/ Creation(Actors)
  \/ Detection
SpecSocial == InitOwner /\ [][NextSocial]_vars

Reload(U) ==
  \/ \E s \in U : loadEvents(s)
  \/ \E s \in U : loadEventsFails(s)

\* The first users create and delete events and reload the local list
NextReload == Creation(Actors) \/ Deletion(Actors) \/ Reload(Actors)
SpecReload == Init /\ [][NextReload]_vars

\* The notification store of the first users: notifications arrive for
\* every user, the listener delivers them, and the user marks, deletes and
\* clears them
NextNotifications ==
  \/ \E u \in Users : createNotification(u)
  \/ \E s \in Actors : onSnapshot(s)
  \/ \E s \in Actors, i \in NotificationIds : markAsRead(s, i)
  \/ \E s \in Actors, i \in NotificationIds : markAsReadFails(s, i)
  \/ \E s \in Actors, i \in NotificationIds : deleteNotification(s, i)
  \/ \E s \in Actors, i \in NotificationIds : deleteNotificationFails(s, i)
  \/ \E s \in Actors : clearAllNotifications(s)
  \/ \E s \in Actors : clearAllNotificationsFails(s)
SpecNotifications == Init /\ [][NextNotifications]_vars

\* The auth store: sign-ins, the delayed callbacks of the listener and
\* sign-outs
NextAuth ==
  \/ \E u \in Users : login(u)
  \/ \E u \in Users : loginFails(u)
  \/ \E k \in 1..MaxSignIns : authStateCallback(k)
  \/ \E k \in 1..MaxSignIns : authStateCallbackFails(k)
  \/ logout
  \/ logoutFails
SpecAuth == Init /\ [][NextAuth]_vars

\* no createEvent call is between its start and its return
NoCallRunning == \A u \in Users : pc[u] \in {"idle", "returned"}

\* The matching engine with createEvent calls that do not interleave: a
\* call starts only when every earlier call, its detection included, has
\* returned
NextSerial ==
  \/ \E s \in Users, eventData \in EventInputs : NoCallRunning /\ createEvent(s, eventData)
  \/ \E s \in Users, eventData \in EventInputs : NoCallRunning /\ createEventFails(s, eventData)
  \/ \E s \in Users : handleCreateEvent(s)
  \/ \E s \in Users : getUserFriends(s)
  \/ \E s \in Users : getUserFriendsFails(s)
  \/ Detection
SpecSerial == InitMatch /\ [][NextSerial]_vars

\* The calendar of the first users after a match: the matched hangout is
\* changed or deleted, and the overlaps are asked for
NextLive == Changes(Actors) \/ Queries(Actors)
SpecLive == InitMatched /\ [][NextLive]_vars

Next ==
  \/ Friendship \/ Creation(Users) \/ Detection \/ Changes(Users) \/ Queries(Users)
  \/ Reload(Users) \/ NextNotifications \/ NextAuth
Spec == Init /\ [][Next]_vars

\* ------------------------------------------------- the overlap calculator
\* The calculator on every pair of events whose timestamps are instants
\* 0..MaxTime in either format, or malformed
Timestamps == {ISO(t) : t \in 0..MaxTime} \cup {Local(t) : t \in 0..MaxTime} \cup {Malformed}
TimeRanges == [startTime : Timestamps, endTime : Timestamps]
NotComputed == [computed |-> FALSE]

InitOverlap ==
  /\ friends = [u \in Users |-> <<>>]
  /\ reqSent = [u \in Users |-> <<>>]
  /\ reqReceived = [u \in Users |-> <<>>]
  /\ eventDocs = [i \in EventIds |-> NoDoc]
  /\ nextEventId = 1
  /\ notifications = [u \in Users |-> <<>>]
  /\ localEvents = [u \in Users |-> <<>>]
  /\ error = [u \in Users |-> NoError]
  /\ pc = [u \in Users |-> "idle"]
  /\ cur = [u \in Users |-> Idle]
  /\ pendingUpdate = [u \in Users |-> NoPending]
  /\ pendingDelete = [u \in Users |-> NoPending]
  /\ calls = [u \in Users |-> <<>>]
  /\ deleted = {}
  /\ failures = 0
  /\ ovA \in TimeRanges
  /\ ovB \in TimeRanges
  /\ ovResult = NotComputed
  /\ InitView

ComputeOverlap ==
  /\ ovResult = NotComputed
  /\ ovResult' = getTimeOverlap(ovA, ovB)
  /\ UNCHANGED <<storeVars, sessionVars, deleted, failures, ovA, ovB, viewVars>>

SpecOverlap == InitOverlap /\ [][ComputeOverlap]_vars

\* ----------------------------------------------------------------- claims
WellFormed(e) == GetTime(e.startTime) # NaN /\ GetTime(e.endTime) # NaN
Ordered(e) == WellFormed(e) /\ GetTime(e.startTime) <= GetTime(e.endTime)
Later(x, y) == IF x >= y THEN x ELSE y
Earlier(x, y) == IF x <= y THEN x ELSE y

\* C3: for events a and b with a.start <= a.end and b.start <= b.end,
\* getTimeOverlap(a, b) is the pair of the later start and the earlier end
\* exactly when the later start is not after the earlier end, and none
\* otherwise; it is none for every disjoint pair (a.end < b.start)
C3_OverlapIsIntersection ==
  (ovResult # NotComputed /\ Ordered(ovA) /\ Ordered(ovB)) =>
    LET resultStart == Later(GetTime(ovA.startTime), GetTime(ovB.startTime))
        resultEnd == Earlier(GetTime(ovA.endTime), GetTime(ovB.endTime))
    IN /\ IF resultStart <= resultEnd
            THEN /\ ovResult # Null
                 /\ GetTime(ovResult.start) = resultStart
                 /\ GetTime(ovResult.end) = resultEnd
            ELSE ovResult = Null
       /\ GetTime(ovA.endTime) < GetTime(ovB.startTime) => ovResult = Null

\* a partial overlap whose start comes from b and whose end comes from a
C3_Witness ==
  /\ ovResult # NotComputed /\ ovResult # Null
  /\ Ordered(ovA) /\ Ordered(ovB)
  /\ GetTime(ovA.startTime) < GetTime(ovB.startTime)
  /\ GetTime(ovB.startTime) < GetTime(ovA.endTime)
  /\ GetTime(ovA.endTime) < GetTime(ovB.endTime)
  /\ ovResult = [start |-> ISO(GetTime(ovB.startTime)), end |-> ISO(GetTime(ovA.endTime))]

\* the createHangoutMatch calls of the running or returned createEvent of s
CallsOf(s) == {calls[s][i] : i \in 1..Len(calls[s])}

\* the stored hangout_match notifications of user u that list exactly the
\* event ids of the call
StoredFor(call, u) ==
  SelectSeq(notifications[u],
            LAMBDA n : n.type = "hangout_match"
                       /\ n.data.hangoutEvents = <<call.event1, call.event2>>)

MatchData(matchedUserId, call) ==
  [matchedUserId |-> matchedUserId, overlappingTime |-> call.overlap,
   hangoutEvents |-> <<call.event1, call.event2>>, fromUserId |-> Undefined]

\* C1: a createHangoutMatch call for E1 of the creator U1 and E2 of the
\* friend U2 that has returned without a store failure has written exactly
\* two hangout_match notifications: one of U1 naming U2 and one of U2
\* naming U1, with the same overlappingTime and the same hangoutEvents
\* [E1.id, E2.id]
C1_TwoSymmetricNotifications ==
  \A s \in Users : \A call \in CallsOf(s) :
    (call.done /\ ~call.failed) =>
      /\ call.user1 = s /\ call.user2 # s
      /\ call.overlap # Null
      /\ StoredFor(call, call.user1) =
           <<[userId |-> call.user1, type |-> "hangout_match",
              data |-> MatchData(call.user2, call)]>>
      /\ StoredFor(call, call.user2) =
           <<[userId |-> call.user2, type |-> "hangout_match",
              data |-> MatchData(call.user1, call)]>>
      /\ \A u \in Users \ {call.user1, call.user2} : StoredFor(call, u) = <<>>

\* a match has been notified without a failure
C1_Witness ==
  \E s \in Users : \E call \in CallsOf(s) :
    /\ call.done /\ ~call.failed
    /\ Len(StoredFor(call, call.user1)) = 1
    /\ Len(StoredFor(call, call.user2)) = 1

\* C2: when the creator holds a hangout_match notification listing both the
\* new hangout and a friend hangout at the time the detector reads the
\* notifications, the detector starts no createHangoutMatch call for that
\* pair
C2_NoMatchForNotifiedPair ==
  \A s \in Users : \A call \in CallsOf(s) :
    pc[s] = "match" => {call.event1, call.event2} \notin cur[s].seen

\* C4: a createEvent call in which a match got one of its two notifications
\* written and not the other tells its caller: it does not return the
\* event with the error state clear
C4_PartialFailureReported ==
  \A s \in Users :
    (pc[s] = "returned" /\ \E call \in CallsOf(s) : call.done /\ Len(call.written) = 1)
      => (~cur[s].ok \/ cur[s].error # NoError)

\* C5: a createEvent call whose friend lookup or friend-event lookup failed
\* has started no match and written no notification, and tells its caller
C5_LookupFailureSurfaced ==
  \A s \in Users :
    (pc[s] = "returned" /\ cur[s].failed \cap {"getUserFriends", "getEventsByUserIds"} # {})
      => /\ calls[s] = <<>>
         /\ ~cur[s].ok \/ cur[s].error # NoError

\* C6: a createEvent, updateEvent or deleteEvent call during which the store
\* failed has returned null (create) or false (update, delete) and has left
\* the error state of the calendar store set to a message
C6_StoreFailureSetsError ==
  \A s \in Users :
    /\ (pc[s] = "returned" /\ "createEvent" \in cur[s].failed)
         => (~cur[s].ok /\ cur[s].error # NoError)
    /\ (pendingUpdate[s] # NoPending /\ pendingUpdate[s].state = "returned"
          /\ "updateEvent" \in pendingUpdate[s].failed)
         => (~pendingUpdate[s].ok /\ pendingUpdate[s].error # NoError)
    /\ (pendingDelete[s] # NoPending /\ pendingDelete[s].state = "returned"
          /\ "deleteEvent" \in pendingDelete[s].failed)
         => (~pendingDelete[s].ok /\ pendingDelete[s].error # NoError)

\* the stored hangouts of the friends of s that overlap the event
OverlappingFriendHangouts(s, event) ==
  {i \in EventIds :
     /\ eventDocs[i].exists
     /\ eventDocs[i].type = "hangout"
     /\ Includes(friends[s], eventDocs[i].userId)
     /\ getTimeOverlap(event, eventDocs[i]) # Null}

HangoutMatches(u) == SelectSeq(notifications[u], LAMBDA n : n.type = "hangout_match")

\* C7: a createEvent call for a personal event made one store call, the
\* write of the event: it has read no friends, no events and no
\* notifications, has started no match and has written no notification;
\* and every stored hangout_match notification lists hangouts only
C7_PersonalEventRunsNoDetection ==
  /\ \A s \in Users :
       (pc[s] # "idle" /\ cur[s].event.exists /\ cur[s].event.type = "personal")
         => /\ pc[s] = "returned"
            /\ cur[s].trace = <<"createEvent">>
            /\ calls[s] = <<>>
  /\ \A u \in Users : \A i \in 1..Len(HangoutMatches(u)) :
       \A k \in 1..Len(HangoutMatches(u)[i].data.hangoutEvents) :
         eventDocs[HangoutMatches(u)[i].data.hangoutEvents[k]].type = "hangout"

\* a personal event has been created over an overlapping hangout of a friend
C7_Witness ==
  \E s \in Users :
    /\ pc[s] = "returned"
    /\ cur[s].event.exists /\ cur[s].event.type = "personal"
    /\ cur[s].ok
    /\ OverlappingFriendHangouts(s, cur[s].event) # {}

EventPair(call) == {call.event1, call.event2}
WrittenTo(call) == {call.written[i].userId : i \in 1..Len(call.written)}

\* C8: the createHangoutMatch calls of one detector run are for pairwise
\* different event pairs {newHangout.id, candidate.id}, and a call writes at
\* most one notification to each of its two participants
C8_OneMatchPerPair ==
  \A s \in Users :
    /\ \A i, j \in 1..Len(calls[s]) :
         i # j => EventPair(calls[s][i]) # EventPair(calls[s][j])
    /\ \A call \in CallsOf(s) :
         /\ Len(call.written) <= 2
         /\ Cardinality(WrittenTo(call)) = Len(call.written)
         /\ WrittenTo(call) \subseteq {call.user1, call.user2}

\* a detector run has matched the new hangout with two hangouts of friends
C8_Witness ==
  \E s \in Users :
    /\ pc[s] = "returned"
    /\ Len(calls[s]) = 2
    /\ \A call \in CallsOf(s) : call.done /\ Len(call.written) = 2

\* the friend hangouts that were in the store when the event was created
EarlierOverlapping(s, event) ==
  {i \in OverlappingFriendHangouts(s, event) : i < event.id}

TotalWritten(s) ==
  Cardinality({<<i, j>> \in (1..Len(calls[s])) \X (1..2) : j <= Len(calls[s][i].written)})

\* every stored hangout_match notification joins two users, who are
\* friends, and two events, one of each of the two
PairMatchesOnly ==
  \A u \in Users : \A i \in 1..Len(HangoutMatches(u)) :
    LET data == HangoutMatches(u)[i].data
    IN /\ Len(data.hangoutEvents) = 2
       /\ data.matchedUserId # u
       /\ Includes(friends[u], data.matchedUserId)
       /\ {eventDocs[data.hangoutEvents[k]].userId : k \in 1..2} = {u, data.matchedUserId}

C10_DeletedStaysDeleted ==
  \A id \in deleted : ~eventDocs[id].exists

\* an updateEvent call that found the event in the local list has reached
\* the store after the event was deleted, and has returned false
C10_Witness ==
  \E s \in Users :
    /\ pendingUpdate[s] # NoPending
    /\ pendingUpdate[s].state = "returned"
    /\ pendingUpdate[s].id \in deleted
    /\ MayChange(s, pendingUpdate[s].event)
    /\ pendingUpdate[s].failed = {}
    /\ ~pendingUpdate[s].ok

\* the session does not hold an event with the id that the user owns
NotHeldOrNotOwned(s, eventId) ==
  \A i \in 1..Len(localEvents[s]) :
    localEvents[s][i].id = eventId => localEvents[s][i].userId # s

\* the call has come back with false without a store call
RefusedAtOnce(after) ==
  /\ after.state = "returned"
  /\ ~after.ok
  /\ eventDocs' = eventDocs
  /\ localEvents' = localEvents

\* C11: an updateEvent or deleteEvent call for an event id that the caller
\* does not hold or does not own returns false at once, and leaves the
\* events of the store and the local event list of the caller as they were
C11_RefusesForeignEvent ==
  [][\A s \in Users :
       /\ (pendingUpdate[s] = NoPending /\ pendingUpdate'[s] # NoPending
             /\ NotHeldOrNotOwned(s, pendingUpdate'[s].id))
            => RefusedAtOnce(pendingUpdate'[s])
       /\ (pendingDelete[s] = NoPending /\ pendingDelete'[s] # NoPending
             /\ NotHeldOrNotOwned(s, pendingDelete'[s].id))
            => RefusedAtOnce(pendingDelete'[s])]_vars

\* updateEvent and deleteEvent have both returned false for the stored
\* event of another user
C11_Witness ==
  \E s \in Users :
    /\ pendingUpdate[s] # NoPending /\ pendingDelete[s] # NoPending
    /\ pendingUpdate[s].state = "returned" /\ ~pendingUpdate[s].ok
    /\ pendingDelete[s].state = "returned" /\ ~pendingDelete[s].ok
    /\ pendingUpdate[s].id = pendingDelete[s].id
    /\ eventDocs[pendingUpdate[s].id].exists
    /\ eventDocs[pendingUpdate[s].id].userId # s

\* the ids of the events listed by the stored hangout_match notifications
MatchedEventIds ==
  UNION {UNION {{HangoutMatches(u)[i].data.hangoutEvents[k] :
                   k \in 1..Len(HangoutMatches(u)[i].data.hangoutEvents)} :
                i \in 1..Len(HangoutMatches(u))} : u \in Users}

\* C12: no step of an updateEvent or deleteEvent call changes the stored
\* notifications, and none starts or moves a detector run
C12_ChangesLeaveNotifications ==
  [][(pendingUpdate' # pendingUpdate \/ pendingDelete' # pendingDelete)
       => (notifications' = notifications /\ pc' = pc /\ calls' = calls)]_vars

\* a matched hangout has been moved to another time window by updateEvent,
\* and a matched hangout has been deleted
C12_Witness ==
  /\ \E s \in Users :
       /\ pendingUpdate[s] # NoPending
       /\ pendingUpdate[s].state = "returned" /\ pendingUpdate[s].ok
       /\ pendingUpdate[s].id \in MatchedEventIds
       /\ pendingUpdate[s].updates.startTime # pendingUpdate[s].event.startTime
  /\ deleted \cap MatchedEventIds # {}

\* the HangoutMatch of a notification
HangoutMatchOf(userId, notification) ==
  [users |-> <<userId, notification.data.matchedUserId>>,
   overlappingTime |-> notification.data.overlappingTime,
   hangoutEvents |-> notification.data.hangoutEvents]

\* C13: getHangoutMatches of user U returns one HangoutMatch for every
\* hangout_match notification of U, in their order, with users
\* [U, matchedUserId] and the overlappingTime and hangoutEvents of the
\* notification
C13_OneMatchPerNotification ==
  \A u \in Users :
    getHangoutMatches(u) =
      [i \in 1..Len(HangoutMatches(u)) |-> HangoutMatchOf(u, HangoutMatches(u)[i])]

Computed == ovResult # NotComputed
Touching(a, b) == Ordered(a) /\ Ordered(b) /\ GetTime(a.endTime) = GetTime(b.startTime)

\* C14: for events a and b with a.start <= a.end, b.start <= b.end and
\* a.end = b.start, getTimeOverlap(a, b) is not none: it is the zero-length
\* overlap that starts and ends at the instant a.end
C14_TouchingRangesOverlap ==
  (Computed /\ Touching(ovA, ovB)) =>
    /\ ovResult # Null
    /\ ovResult = [start |-> ToISOString(GetTime(ovA.endTime)),
                   end |-> ToISOString(GetTime(ovA.endTime))]

\* back-to-back events of positive length, given in the two formats
C14_Witness ==
  /\ Computed /\ Touching(ovA, ovB)
  /\ GetTime(ovA.startTime) < GetTime(ovA.endTime)
  /\ GetTime(ovB.startTime) < GetTime(ovB.endTime)
  /\ ovA.endTime # ovB.startTime
  /\ ovResult # Null /\ ovResult.start = ovResult.end

\* C15: getTimeOverlap(a, b) equals getTimeOverlap(b, a) for all events a
\* and b, ordered or not, well-formed or not: both none, or the same pair
C15_OverlapSymmetric ==
  Computed => ovResult = getTimeOverlap(ovB, ovA)

\* two different events that overlap in part, the first one starting later
C15_Witness ==
  /\ Computed /\ ovResult # Null
  /\ Ordered(ovA) /\ Ordered(ovB)
  /\ GetTime(ovB.startTime) < GetTime(ovA.startTime)
  /\ GetTime(ovA.startTime) < GetTime(ovB.endTime)
  /\ GetTime(ovB.endTime) < GetTime(ovA.endTime)
  /\ ovResult = getTimeOverlap(ovB, ovA)

\* C16: when one of the four timestamps given to getTimeOverlap does not
\* parse to an instant, the result is none (a value: the function does not
\* raise), so the pair is no match
C16_MalformedIsNoOverlap ==
  (Computed /\ ~(WellFormed(ovA) /\ WellFormed(ovB))) => ovResult = Null

\* one malformed end next to three timestamps of events that start together
C16_Witness ==
  /\ Computed
  /\ ovA.endTime = Malformed
  /\ ovA.startTime # Malformed /\ WellFormed(ovB)
  /\ GetTime(ovA.startTime) = GetTime(ovB.startTime)
  /\ GetTime(ovB.startTime) < GetTime(ovB.endTime)
  /\ ovResult = Null

C18_FriendshipSymmetric ==
  \A a, b \in Users : Includes(friends[a], b) <=> Includes(friends[b], a)

\* the requester of a friend_request notification
Requested(a, b) ==
  \E i \in 1..Len(notifications[b]) :
    notifications[b][i].type = "friend_request" /\ notifications[b][i].data.fromUserId = a

\* a request has been accepted, another one has been rejected, and a batch
\* has failed
C18_Witness ==
  /\ \E a, b \in Users : a # b /\ Includes(friends[a], b) /\ Includes(friends[b], a)
  /\ \E a, b \in Users : Requested(a, b) /\ getFriendshipStatus(a, b) = "none"
                          /\ getFriendshipStatus(b, a) = "none"
  /\ failures > 0

\* the event starts on the calendar day of the target date
StartsOnDay(event, targetDate) ==
  /\ GetTime(event.startTime) # NaN
  /\ GetTime(event.startTime) \div InstantsPerDay = targetDate \div InstantsPerDay

\* the stored hangouts of user u that were there when the call began
HangoutsBefore(u, since) ==
  {i \in EventIds : /\ i < since
                    /\ eventDocs[i].exists
                    /\ eventDocs[i].type = "hangout"
                    /\ eventDocs[i].userId = u}

\* the tuple is one of those the claim describes, for the stored events
RightTuple(s, tuple, targetDate) ==
  /\ tuple.userEvent = eventDocs[tuple.userEvent.id]
  /\ tuple.userEvent.userId = s /\ tuple.userEvent.type = "hangout"
  /\ StartsOnDay(tuple.userEvent, targetDate)
  /\ tuple.friendEvent = eventDocs[tuple.friendEvent.id]
  /\ tuple.friendEvent.type = "hangout"
  /\ tuple.friendEvent.userId = tuple.friend
  /\ Includes(friends[s], tuple.friend)
  /\ tuple.overlap # Null
  /\ tuple.overlap = getTimeOverlap(tuple.userEvent, tuple.friendEvent)

\* the result holds the tuples of the claim, each once, and nothing else
ExactOverlaps(s) ==
  LET result == cur[s].overlaps
      targetDate == cur[s].targetDate
  IN /\ \A i \in 1..Len(result) : RightTuple(s, result[i], targetDate)
     /\ \A i, j \in 1..Len(result) : result[i] = result[j] => i = j
     /\ \A i \in HangoutsBefore(s, cur[s].since) :
          StartsOnDay(eventDocs[i], targetDate) =>
            \A f \in Users : Includes(friends[s], f) =>
              \A j \in HangoutsBefore(f, cur[s].since) :
                getTimeOverlap(eventDocs[i], eventDocs[j]) # Null =>
                  \E k \in 1..Len(result) :
                    result[k].userEvent.id = i /\ result[k].friendEvent.id = j

ReadOrder == <<"createEvent", "getUserFriends", "getEventsByUserIds", "getUserNotifications">>
MatchCalls == {"getDoc", "createNotification"}

InCreateEvent(s) == pc[s] \in {"friends", "events", "notifications", "match", "returned"}

\* the store calls so far are the reads in their order, then those of the
\* matches
InOrder(trace) ==
  /\ \A i \in 1..Len(trace) :
       IF i <= Len(ReadOrder) THEN trace[i] = ReadOrder[i] ELSE trace[i] \in MatchCalls
  /\ \A i \in 1..Len(trace) : \A j \in 1..Len(trace) :
       (trace[i] = "createNotification" /\ trace[j] \in {"createEvent", "getUserNotifications"})
         => j < i

\* C20 as stated: a createEvent call for a hangout that has returned has
\* persisted the event, read the friends, the events of the friends and the
\* existing notifications, in this order and all of them, before the
\* store calls of its matches
C20_AllStepsInOrder ==
  \A s \in Users :
    (pc[s] = "returned" /\ cur[s].event.exists /\ cur[s].event.type = "hangout")
      => (InOrder(cur[s].trace) /\ Len(cur[s].trace) >= Len(ReadOrder))

\* C20 amended: the store calls of a createEvent call are, in this order,
\* the write of the event, the read of the friends, the read of the events
\* of the friends, the read of the existing notifications and then the
\* calls of the matches; a call for a hangout ends after the read of the
\* friends exactly when that read gave no friend, and otherwise makes all
\* the reads; every match of the call is for the persisted event and comes
\* after the read of the existing notifications
C20_StepsInOrder ==
  \A s \in Users : InCreateEvent(s) =>
    /\ InOrder(cur[s].trace)
    /\ (pc[s] = "returned" /\ cur[s].event.exists /\ cur[s].event.type = "hangout")
         => /\ Len(cur[s].trace) >= 2
            /\ (Len(cur[s].trace) < Len(ReadOrder)) <=> (cur[s].friends = <<>>)
            /\ (Len(cur[s].trace) < Len(ReadOrder)) => Len(cur[s].trace) = 2
    /\ \A call \in CallsOf(s) :
         /\ Len(cur[s].trace) >= Len(ReadOrder)
         /\ eventDocs[call.event1] = cur[s].event

\* a call has made every read and then written the two notifications of a
\* match, reading the other user in between
C20_Witness ==
  \E s \in Users :
    /\ pc[s] = "returned" /\ cur[s].failed = {}
    /\ cur[s].trace = ReadOrder \o <<"createNotification", "getDoc", "createNotification">>

\* the hangout_match notifications of user u for the unordered pair of ids
MatchesFor(u, pair) ==
  {i \in 1..Len(HangoutMatches(u)) :
     {HangoutMatches(u)[i].data.hangoutEvents[k] : k \in 1..2} = pair}

ReadNotifications(s) == "getUserNotifications" \notin cur[s].failed

\* C21: two matches for the same pair of events come about only by the
\* race: when the detector runs of two users both make a createHangoutMatch
\* call for the pair and both have read their notifications, neither read
\* held a notification for the pair, that is, both reads came before
\* either run wrote; and no user ever holds more than two notifications
\* for a pair
C21_DuplicateMatchByRace ==
  /\ \A s, t \in Users : \A c1 \in CallsOf(s) : \A c2 \in CallsOf(t) :
       (s # t /\ EventPair(c1) = EventPair(c2) /\ ReadNotifications(s) /\ ReadNotifications(t))
         => (EventPair(c1) \notin cur[s].seen /\ EventPair(c1) \notin cur[t].seen)
  /\ \A u \in Users : \A e1, e2 \in EventIds :
       Cardinality(MatchesFor(u, {e1, e2})) <= 2

\* without any store failure, two friends each hold two hangout_match
\* notifications for the same pair of hangouts
C21_Witness ==
  /\ failures = 0
  /\ \E a, b \in Users : \E e1, e2 \in EventIds :
       /\ a # b /\ e1 # e2
       /\ eventDocs[e1].exists /\ eventDocs[e1].userId = a
       /\ eventDocs[e2].exists /\ eventDocs[e2].userId = b
       /\ Cardinality(MatchesFor(a, {e1, e2})) = 2
       /\ Cardinality(MatchesFor(b, {e1, e2})) = 2

\* the event is a hangout of a user other than s who is in the list
HangoutOfOneOf(friendList, s, event) ==
  /\ event.exists
  /\ event.type = "hangout"
  /\ event.userId # s
  /\ Includes(friendList, event.userId)

\* C22: every createHangoutMatch call of a detector run, and every
\* notification it writes, is for the newly created hangout and a hangout
\* of a user who was in the friend list that the run fetched; every stored
\* hangout_match lists a hangout and a hangout of a friend of its owner
C22_MatchesFriendHangoutsOnly ==
  /\ \A s \in Users : \A call \in CallsOf(s) :
       /\ cur[s].event.type = "hangout"
       /\ call.event1 = cur[s].event.id
       /\ HangoutOfOneOf(cur[s].friends, s, eventDocs[call.event2])
       /\ \A i \in 1..Len(call.written) :
            call.written[i].data.hangoutEvents = <<call.event1, call.event2>>
  /\ \A u \in Users : \A i \in 1..Len(HangoutMatches(u)) :
       LET ids == HangoutMatches(u)[i].data.hangoutEvents
           first == eventDocs[ids[1]]
       IN first.type = "hangout"
          /\ HangoutOfOneOf(friends[first.userId], first.userId, eventDocs[ids[2]])

\* a match has been written while a third event overlaps the new hangout
\* that is personal, or of a user who is no friend, or of the creator
C22_Witness ==
  \E s \in Users : \E call \in CallsOf(s) :
    /\ call.done /\ Len(call.written) = 2
    /\ \E i \in EventIds \ EventPair(call) :
         /\ eventDocs[i].exists
         /\ getTimeOverlap(cur[s].event, eventDocs[i]) # Null
         /\ ~HangoutOfOneOf(friends[s], s, eventDocs[i])

\* C23: the overlap queries are computed from the events as they are, and
\* the match notifications stay as they were written: after the match of
\* the hangouts 2 and 1, whatever updateEvent and deleteEvent do to hangout
\* 2, both users keep their hangout_match notification for the pair, while
\* getOverlappingHangouts and checkEventOverlap report a pair only if the
\* events they read overlap.
C23_MatchesStayQueriesFollowEvents ==
  /\ \A u \in {1, OtherOwner} : MatchesFor(u, {1, 2}) # {}
  /\ \A s \in Users : pc[s] = "overlapReturned" =>
       \A i \in 1..Len(cur[s].overlaps) :
         LET tuple == cur[s].overlaps[i]
         IN /\ tuple.overlap # Null
            /\ tuple.overlap = getTimeOverlap(tuple.userEvent, tuple.friendEvent)
            /\ Includes(cur[s].userHangouts, tuple.userEvent)
            /\ Includes(cur[s].friendHangouts, tuple.friendEvent)
  /\ \A s \in Users : \A e \in EventIds :
       LET tuple == checkEventOverlap(s, e)
       IN tuple # Null =>
            /\ tuple.userEvent = FindLocal(s, e)
            /\ tuple.friendEvent = eventDocs[tuple.friendEvent.id]
            /\ getTimeOverlap(tuple.userEvent, tuple.friendEvent) # Null

\* hangout 2 was moved out of the window of hangout 1 by an updateEvent that
\* succeeded; both users still hold the match of the pair; a
\* getOverlappingHangouts call without failure that read the moved hangout
\* has returned without the pair, and checkEventOverlap gives null for it
C23_Witness ==
  /\ failures = 0
  /\ eventDocs[2].exists /\ eventDocs[1].exists
  /\ getTimeOverlap(eventDocs[2], eventDocs[1]) = Null
  /\ FindLocal(1, 2) = eventDocs[2]
  /\ MatchesFor(1, {1, 2}) # {} /\ MatchesFor(OtherOwner, {1, 2}) # {}
  /\ pc[1] = "overlapReturned" /\ cur[1].failed = {}
  /\ Includes(cur[1].userHangouts, eventDocs[2])
  /\ StartsOnDay(eventDocs[2], cur[1].targetDate)
  /\ Includes(cur[1].friendHangouts, eventDocs[1])
  /\ \A i \in 1..Len(cur[1].overlaps) :
       ~(cur[1].overlaps[i].userEvent.id = 2 /\ cur[1].overlaps[i].friendEvent.id = 1)
  /\ checkEventOverlap(1, 2) = Null

\* the same after a deleteEvent of hangout 2
C23_WitnessDeleted ==
  /\ failures = 0
  /\ 2 \in deleted /\ ~eventDocs[2].exists
  /\ MatchesFor(1, {1, 2}) # {} /\ MatchesFor(OtherOwner, {1, 2}) # {}
  /\ pc[1] = "overlapReturned" /\ cur[1].failed = {}
  /\ cur[1].userHangouts = <<>> /\ cur[1].overlaps = <<>>
  /\ Includes(cur[1].friendHangouts, eventDocs[1])
  /\ checkEventOverlap(1, 2) = Null

\* the createEvent call that stored event i has returned
Completed(i) ==
  \A s \in Users :
    (pc[s] \in {"friends", "events", "notifications", "match"}) => cur[s].event.id # i

MutualFriends(a, b) == a # b /\ Includes(friends[a], b) /\ Includes(friends[b], a)

\* C24: no overlapping pair is missed, however the calls interleave: when
\* two mutual friends have each created a hangout, the two hangouts overlap,
\* no store operation has failed and both createEvent calls have returned,
\* each of the two users holds a hangout_match notification whose
\* hangoutEvents are the two hangouts.
C24_NoPairMissed ==
  \A i, j \in EventIds :
    (/\ failures = 0
     /\ eventDocs[i].exists /\ eventDocs[j].exists
     /\ eventDocs[i].type = "hangout" /\ eventDocs[j].type = "hangout"
     /\ MutualFriends(eventDocs[i].userId, eventDocs[j].userId)
     /\ getTimeOverlap(eventDocs[i], eventDocs[j]) # Null
     /\ Completed(i) /\ Completed(j))
      => /\ MatchesFor(eventDocs[i].userId, {i, j}) # {}
         /\ MatchesFor(eventDocs[j].userId, {i, j}) # {}

\* two createEvent calls of friends that interleaved have both returned:
\* each detector ran after both hangouts were stored and started the match
\* of the pair, and both users hold it
C24_Witness ==
  /\ failures = 0
  /\ \E a, b \in Users :
       /\ MutualFriends(a, b)
       /\ pc[a] = "returned" /\ pc[b] = "returned"
       /\ cur[a].event.type = "hangout" /\ cur[b].event.type = "hangout"
       /\ getTimeOverlap(cur[a].event, cur[b].event) # Null
       /\ \E c \in CallsOf(a) : EventPair(c) = {cur[a].event.id, cur[b].event.id}
       /\ \E c \in CallsOf(b) : EventPair(c) = {cur[a].event.id, cur[b].event.id}
       /\ MatchesFor(a, {cur[a].event.id, cur[b].event.id}) # {}
       /\ MatchesFor(b, {cur[a].event.id, cur[b].event.id}) # {}

\* C25: when the createEvent calls do not interleave, every user holds at
\* most one hangout_match notification for an unordered pair of hangouts,
\* whatever store operations fail.
C25_OneMatchPerPairSerial ==
  \A u \in Users : \A i, j \in EventIds : Cardinality(MatchesFor(u, {i, j})) <= 1

\* three createEvent calls, one after the other, of a user and a friend,
\* for hangouts that all overlap: the user holds one match for each of the
\* two pairs with the hangout of the friend
C25_Witness ==
  /\ NoCallRunning
  /\ \E a, b \in Users : \E i, j, k \in EventIds :
       /\ MutualFriends(a, b)
       /\ i < j /\ j < k
       /\ eventDocs[i].exists /\ eventDocs[j].exists /\ eventDocs[k].exists
       /\ eventDocs[i].userId = a /\ eventDocs[j].userId = b /\ eventDocs[k].userId = a
       /\ Cardinality(MatchesFor(a, {i, j})) = 1 /\ Cardinality(MatchesFor(b, {i, j})) = 1
       /\ Cardinality(MatchesFor(a, {j, k})) = 1 /\ Cardinality(MatchesFor(b, {j, k})) = 1

PersistFailed(s) ==
  pc[s] = "idle" /\ pc'[s] = "returned" /\ "createEvent" \in cur'[s].failed

\* C27: when persisting the new event fails, createEvent returns null and
\* sets the error state in that very step, the local event list and the
\* store (events, notifications, friends) are as before, the only store
\* call of the call is the failed createEvent and no createHangoutMatch call
\* is started.
C27_FailedCreateDoesNothing ==
  [][\A s \in Users : PersistFailed(s) =>
       /\ ~cur'[s].ok
       /\ error'[s] # NoError /\ cur'[s].error = error'[s]
       /\ localEvents'[s] = localEvents[s]
       /\ eventDocs' = eventDocs /\ nextEventId' = nextEventId
       /\ notifications' = notifications
       /\ friends' = friends
       /\ cur'[s].trace = <<"createEvent">>
       /\ calls'[s] = <<>> /\ cur'[s].todo = <<>>]_vars

\* user 1, a friend of the owner of a stored hangout, has got null from
\* createEvent: no event is stored or listed for user 1 and nobody holds a
\* match
C27_Witness ==
  /\ pc[1] = "returned" /\ cur[1].failed = {"createEvent"} /\ ~cur[1].ok
  /\ error[1] = "Failed to create event"
  /\ MutualFriends(1, OtherOwner)
  /\ eventDocs[1].exists /\ eventDocs[1].type = "hangout"
  /\ localEvents[1] = <<>>
  /\ \A i \in EventIds : eventDocs[i].exists => eventDocs[i].userId # 1
  /\ \A u \in Users : Len(HangoutMatches(u)) = 0

\* the stored events of user u
StoredEventsOf(u) == {eventDocs[i] : i \in {j \in EventIds : eventDocs[j].exists /\ eventDocs[j].userId = u}}

\* C28 as stated: a loadEvents of user s without a store failure leaves the
\* local list with exactly the stored, not deleted events of s, the events
\* that s created before among them.
C28_ReloadGivesStoredEvents ==
  [][\A s \in Users : loadEvents(s) =>
       {localEvents'[s][k] : k \in 1..Len(localEvents'[s])} = StoredEventsOf(s)]_vars

\* what the reload does: whatever is stored, the local list is empty after
\* it, so that updateEvent and deleteEvent find no event to change
C28_ReloadEmptiesLocalList ==
  [][\A s \in Users : loadEvents(s) =>
       /\ localEvents'[s] = <<>>
       /\ \A i \in EventIds : ~MayChange(s, FindLocal(s, i))']_vars

\* user 1 holds no local event although an event of user 1 is stored and
\* no store operation has failed: the state after a reload
C28_Witness ==
  /\ failures = 0
  /\ pc[1] = "idle"
  /\ StoredEventsOf(1) # {}
  /\ localEvents[1] = <<>>
  /\ deleted = {}

\* the step in which a call of the notification store of s resolves
Resolves(s) == lastCall'[s] # lastCall[s]

\* the persisted notifications agree with what the call did to the local
\* list of s
AgreesWithStore(s, call, docs, list) ==
  /\ call.op = "markAsRead" =>
       \A k \in 1..Len(list) :
         (list[k].id = call.id /\ list[k].read) => (docs[call.id].exists /\ docs[call.id].read)
  /\ call.op = "deleteNotification" =>
       ((\A k \in 1..Len(list) : list[k].id # call.id) => ~docs[call.id].exists)
  /\ call.op = "clearAllNotifications" =>
       (list = <<>> => \A i \in NotificationIds : ~(docs[i].exists /\ docs[i].userId = s))

\* C29 as stated: when markAsRead, deleteNotification or
\* clearAllNotifications resolves, the persisted notifications agree with
\* the local list it leaves, and when its store write failed the local list
\* is as before and the error state is set.
C29_ResolvedCallsAgreeWithStore ==
  [][\A s \in Users : Resolves(s) =>
       /\ AgreesWithStore(s, lastCall'[s], notificationDocs', localNotifications'[s])
       /\ ~lastCall'[s].ok =>
            /\ localNotifications'[s] = lastCall'[s].before
            /\ notificationError'[s] # NoError]_vars

\* what the store does: the local list is changed whatever the service
\* returned, and the error state is never set by the three calls
C29_LocalUpdateWhateverTheResult ==
  [][\A s \in Users : Resolves(s) =>
       LET call == lastCall'[s]
       IN /\ notificationError'[s] = notificationError[s]
          /\ call.op = "markAsRead" =>
               localNotifications'[s] = MarkedRead(call.before, call.id)
          /\ call.op = "deleteNotification" =>
               \A k \in 1..Len(localNotifications'[s]) : localNotifications'[s][k].id # call.id
          /\ call.op = "clearAllNotifications" => localNotifications'[s] = <<>>]_vars

\* a markAsRead whose store write failed has resolved: the notification is
\* read in the local list and unread in the store, the error state is null
\* and the listener has nothing new to deliver
C29_Witness ==
  /\ lastCall[1].op = "markAsRead" /\ ~lastCall[1].ok
  /\ notificationError[1] = NoError
  /\ delivered[1] = NotificationsOf(notificationDocs, 1)
  /\ \E k \in 1..Len(localNotifications[1]) :
       /\ localNotifications[1][k].id = lastCall[1].id
       /\ localNotifications[1][k].read
       /\ notificationDocs[lastCall[1].id].exists
       /\ ~notificationDocs[lastCall[1].id].read

\* C30 as stated: when the provider is signed out and no auth-state callback
\* is waiting any more, the auth store has user = null and isAuthenticated
\* = false.
C30_SignedOutAfterCallbacks ==
  (currentUser = Undefined /\ pendingCallbacks = <<>>) => state = SignedOut

\* C30, its second sentence: a callback of an earlier sign-in that comes
\* back while the provider is signed out does not authenticate the store.
C30_LateCallbackKeepsSignedOut ==
  [][(currentUser = Undefined /\ Len(pendingCallbacks') < Len(pendingCallbacks))
       => ~state'.isAuthenticated]_vars

\* the provider is signed out, every callback has run and no store
\* operation has failed, yet the auth store holds a user
C30_Witness ==
  /\ failures = 0
  /\ currentUser = Undefined /\ pendingCallbacks = <<>>
  /\ state.isAuthenticated /\ state.user # Undefined

====
